---- MODULE Spec2Model ----
(***************************************************************************)
(* cobutler: the graph store (package db, Graph) and what is built on it.  *)
(*                                                                         *)
(* The store is one SQLite database reached through a database/sql pool    *)
(* limited to one connection.  Its three tables are modelled as sequences  *)
(* of rows; a row's id is its index (AUTOINCREMENT ids, rows are never     *)
(* deleted).  A token's text is a sequence of one-character strings.       *)
(***************************************************************************)
EXTENDS Integers, Sequences, FiniteSets, TLC

(***************************************************************************)
(* Bounds of the model.                                                    *)
(***************************************************************************)
\* writes (rows inserted plus counts incremented) in one run of Spec
MaxWrites == 2
\* rows of the tokens table in one run of SpecTokens
MaxTokens == 2
\* writes in one run of SpecConc
MaxConcWrites == 4
\* tokens in one text given to Learn
MaxLearnLen == 3
\* writes in one run of SpecLearn
MaxLearnWrites == 6
\* writes to the edges table in one run of SpecWalk
MaxWalkEdges == 3
\* writes in one run of SpecContext
MaxContextWrites == 2
\* rows of the edges table in a run of SpecOut: more than LIMIT 20 of them
\* leave one node
MaxOutEdges == 22
\* candidate replies handed to selectReplyByPrecision
MaxReplies == 4
\* rows of the nodes table in one run of SpecNodes
MaxNodes == 2
\* edge rows inserted plus edge counts incremented in one run of SpecEdges
MaxEdgeWrites == 4
\* longest tuple handed to NodeID (one more than the largest order)
MaxTupleLen == 4
\* edge rows inserted in one run of SpecSample
MaxSampleEdges == 7
\* commands given to the plugin in one run of SpecPlugin
MaxCommands == 3
\* calls of the debounced request in one run of SpecPlugin
MaxDebounceCalls == 2
\* characters of a text given to a tokenizer
MaxTextLen == 4

(***************************************************************************)
(* Input domains.                                                          *)
(***************************************************************************)
Orders == {1, 2, 3}
Texts == {<<"a">>, <<",">>, <<>>}
TokenIds == {1, 2}
NodeIds == {1, 2}
Tuples == UNION {[1..n -> TokenIds] : n \in 0..MaxTupleLen}
Triples == NodeIds \X NodeIds \X BOOLEAN
\* a tokenized text: its tokens other than spaces, each with whether a space
\* token came before it
LearnItems == [text : {<<"a">>, <<",">>}, space : BOOLEAN]
LearnTexts == UNION {[1..n -> LearnItems] : n \in 1..MaxLearnLen}
\* the contexts ContextEdges is given: shorter than, as long as and longer
\* than the order
Contexts ==
    {<<>>, <<1>>, <<2>>, <<1, 1>>, <<1, 2>>, <<2, 1>>, <<1, 1, 2>>,
     <<1, 2, 1>>, <<2, 1, 1>>, <<1, 2, 1, 2>>}
\* the edges a run of SpecContext adds
ContextTriples == {<<1, 2, TRUE>>, <<1, 2, FALSE>>, <<2, 1, TRUE>>}
\* replies as strings of one-character strings: of 0, 1, 1, 2, 2 and 3
\* words, one with blanks in front and doubled
ReplyTexts ==
    {<<>>, <<"a">>, <<"b">>, <<"a", " ", "a">>, <<" ", "a", " ", " ", "b">>,
     <<"a", " ", "b", " ", "c">>}
Candidates == UNION {[1..n -> ReplyTexts] : n \in 0..MaxReplies}
\* the precision of a request, in hundredths
Precisions == {50, 70, 71, 90, 91, 100}
\* what Brain.Reply returns to a Predict request: texts of 1, 2 and 3 words
PredictReplies ==
    {<<"a">>, <<" ", "a", " ", " ", "b">>, <<"a", " ", "b", " ", "c">>}
\* the precision a request asks for, in hundredths; 0 when it gives none
AskedPrecisions == {-10, 0, 50, 70, 80, 90, 95, 100, 150}
\* the max_words a request asks for; 0 when it gives none
AskedMaxWords == {-1, 0, 1, 2, 3}
\* the text and the context of a Learn request, without marker lines
LearnBodies == {<<>>, <<" ">>, <<"a">>, <<" ", "a", " ">>}
LearnContexts == {<<>>, <<"c">>}
\* the edges a run of SpecWalk adds: a cycle 1 -> 2 -> 1 with a choice of two
\* edges on one leg, and a self-loop
WalkTriples == {<<1, 2, TRUE>>, <<1, 2, FALSE>>, <<2, 1, TRUE>>, <<1, 1, TRUE>>}
\* the node ids RandomWalk is given; 3 is the id of no edge's end
WalkIds == {1, 2, 3}
\* the goroutines that call the store at once in SpecConc
Workers == {1, 2}
\* what they call it with
ConcTexts == {<<"a">>, <<",">>}
ConcTuples(ord) == {[i \in 1..ord |-> 1], [i \in 1..ord |-> 2], <<>>}
ConcTriples == {<<1, 2, TRUE>>, <<1, 2, FALSE>>}

VARIABLES
    order,      \* Graph.order, read from the info table by NewGraph
    tokens,     \* table tokens: <<[text, is_word]>>
    nodes,      \* table nodes:  <<[toks, count]>>
    edges,      \* table edges:  <<[prev, next, has_space, count]>>
    inTx,       \* the connection is inside an explicit BEGIN
    dirty,      \* the connection holds writes that are not committed
    calls,      \* history: AddEdge calls completed, per triple
    ret,        \* what the last operation returned
    prev,       \* the id the call before the last one returned, when both are
                \* the same successful TokenID(text, true); 0 otherwise
    limit,      \* the run's cap on writes
    pc,         \* per goroutine: the statement its call sends next
    loc,        \* per goroutine: the arguments of its call
    learn,      \* the Learn call in progress
    view,       \* the tables as a reader saw them during that Learn call
    walk,       \* the SearchRandomWalk call in progress
    lookup,     \* what the last FindEdgesForContext call returned
    api,        \* the HTTP handler layer: the call in hand and its result
    info,       \* table info: the order recorded in the database
    closed,     \* Graph.Close has been called
    http,       \* per goroutine: the HTTP request its handler serves
    cache,      \* the Brain's cache toggle
    plugin,     \* the Neovim plugin: initialized, enabled, calls of the engine
    editor      \* the suggestion engine: autocommands, timers, scheduled
                \* callbacks, the suggestion displayed

store == <<order, tokens, nodes, edges, inTx, dirty, calls, ret, prev, limit>>
\* what the store's own operations never touch
handle == <<info, closed, plugin, editor>>
web == <<http, cache>>
client == <<learn, view, walk, lookup, api, handle, web>>
vars == <<store, pc, loc, client>>

(***************************************************************************)
(* Results and errors.                                                     *)
(***************************************************************************)
NoErr == "nil"
NoLearn == [pc |-> "idle"]
NoView == <<>>
NoWalk == [pc |-> "idle"]
NoLookup == [op |-> "none"]
NoApi == [op |-> "none"]
NoRequest == [pc |-> "idle"]
\* local enabled = false; local initialized = false
NoPlugin == [initialized |-> FALSE, enabled |-> FALSE, engine |-> <<>>,
             last |-> "none", fresh |-> FALSE]
\* local current_suggestion = nil; local active_extmark = nil; local timer = nil
NoEditor == [autocmds |-> FALSE, keymaps |-> FALSE, timer |-> 0,
             timers |-> <<>>, queue |-> <<>>, invoked |-> <<>>,
             suggestion |-> 0, extmark |-> 0, inserted |-> <<>>, wiped |-> 0]
ErrStorage == "StorageError"
ErrInvalidOrder == "InvalidOrder"

\* op: the operation; arg: what it was given (NodeID: the tuple's length,
\* AddEdge: hasSpace);
\* id: the id returned; err: the error returned; stmts: statements sent
Result(op, arg, id, err, stmts) ==
    [op |-> op, arg |-> arg, id |-> id, err |-> err, stmts |-> stmts]

\* rows inserted plus counts incremented so far
Writes ==
    LET S[i \in 0..Len(edges)] ==
          IF i = 0 THEN 0 ELSE S[i-1] + (edges[i].count - 1)
    IN Len(tokens) + Len(nodes) + Len(edges) + S[Len(edges)]

(***************************************************************************)
(* Table tokens.                                                           *)
(***************************************************************************)
WordChars == {"a", "b", "h", "w", "A", "Z", "0", "9", "_"}

\* GetTokenByText: the loop that sets isWord
IsWord(text) == \E i \in 1..Len(text) : text[i] \in WordChars

SelectTokenAny(toks, text) ==
    IF toks = <<>> THEN 0 ELSE 1

\* SELECT id FROM tokens WHERE text = ?  (0 stands for sql.ErrNoRows)
SelectToken(toks, text) ==
    LET hit == {i \in 1..Len(toks) : toks[i].text = text}
    IN IF hit = {} THEN 0 ELSE CHOOSE i \in hit : \A j \in hit : i <= j

\* no stored token has this text: what a UNIQUE constraint on tokens.text
\* would demand of an INSERT
TokenTextFree(toks, text) == \A i \in 1..Len(toks) : toks[i].text # text

\* INSERT INTO tokens (text, is_word) VALUES (?, ?)
InsertToken(toks, text) ==
    Append(toks, [text |-> text, is_word |-> IsWord(text)])

(***************************************************************************)
(* Table nodes.                                                            *)
(***************************************************************************)
WrongLengthShort(tuple, ord) == Len(tuple) < ord

\* GetNodeByTokens: len(tokens) != g.order
WrongLength(tuple, ord) == Len(tuple) # ord

\* SELECT id FROM nodes WHERE token0_id = ? AND ... (0: sql.ErrNoRows)
SelectNode(nds, tuple) ==
    LET hit == {i \in 1..Len(nds) : nds[i].toks = tuple}
    IN IF hit = {} THEN 0 ELSE CHOOSE i \in hit : \A j \in hit : i <= j

\* no stored node has this tuple: what a UNIQUE constraint on the token
\* columns would demand of an INSERT
NodeTupleFree(nds, tuple) == \A i \in 1..Len(nds) : nds[i].toks # tuple

\* INSERT INTO nodes (count, token0_id, ...) VALUES (0, ?, ...)
InsertNode(nds, tuple) == Append(nds, [toks |-> tuple, count |-> 0])

(***************************************************************************)
(* Table edges.                                                            *)
(***************************************************************************)
EdgeMatches(e, p, n, hs) == e.prev = p /\ e.next = n /\ e.has_space = hs

UpdateEdgeDown(es, p, n, hs) ==
    [i \in 1..Len(es) |->
        IF EdgeMatches(es[i], p, n, hs)
        THEN [es[i] EXCEPT !.count = @ - 1] ELSE es[i]]

\* UPDATE edges SET count = count + 1 WHERE prev_node = ? AND next_node = ?
\* AND has_space = ?
UpdateEdge(es, p, n, hs) ==
    [i \in 1..Len(es) |->
        IF EdgeMatches(es[i], p, n, hs)
        THEN [es[i] EXCEPT !.count = @ + 1] ELSE es[i]]

RowsAffectedNone(es, p, n, hs) == 0

\* result.RowsAffected()
RowsAffected(es, p, n, hs) ==
    Cardinality({i \in 1..Len(es) : EdgeMatches(es[i], p, n, hs)})

\* no stored edge has this (prev_node, next_node, has_space): what a UNIQUE
\* constraint on the triple would demand of an INSERT
EdgeTripleFree(es, p, n, hs) ==
    \A i \in 1..Len(es) : ~EdgeMatches(es[i], p, n, hs)

\* INSERT INTO edges (prev_node, next_node, has_space, count)
\* VALUES (?, ?, ?, 1)
InsertEdge(es, p, n, hs) ==
    Append(es, [prev |-> p, next |-> n, has_space |-> hs, count |-> 1])

\* a write statement's effect on the connection's transaction state: outside
\* BEGIN each statement commits by itself
AfterWrite == /\ inTx' = inTx
              /\ dirty' = inTx

NoWrite == UNCHANGED <<inTx, dirty>>

(***************************************************************************)
(* Graph.GetTokenByText(text, create), the store's TokenID.                *)
(* fail names the statement at which the storage fails, if any.            *)
(***************************************************************************)
GetTokenByText(text, create, fail) ==
    LET id == SelectToken(tokens, text)
        arg == <<text, create>>
    IN
    /\ UNCHANGED <<order, nodes, edges, calls, limit, pc, loc>>
    /\ prev' = IF ret.op = "TokenID" /\ ret.arg = arg /\ ret.err = NoErr /\ create
               THEN ret.id ELSE 0
    /\ IF fail = "select"
       THEN /\ ret' = Result("TokenID", arg, 0, ErrStorage, 1)
            /\ UNCHANGED tokens /\ NoWrite
       ELSE IF id # 0
       THEN /\ ret' = Result("TokenID", arg, id, NoErr, 1)
            /\ UNCHANGED tokens /\ NoWrite
       ELSE IF ~create
       THEN /\ ret' = Result("TokenID", arg, 0, NoErr, 1)
            /\ UNCHANGED tokens /\ NoWrite
       ELSE IF fail = "insert"
       THEN /\ ret' = Result("TokenID", arg, 0, ErrStorage, 2)
            /\ UNCHANGED tokens /\ NoWrite
       ELSE /\ Writes < limit
            /\ tokens' = InsertToken(tokens, text)
            /\ ret' = Result("TokenID", arg, Len(tokens) + 1, NoErr, 2)
            /\ AfterWrite

(***************************************************************************)
(* Graph.GetNodeByTokens(tokens), the store's NodeID.                      *)
(***************************************************************************)
GetNodeByTokens(tuple, fail) ==
    LET id == SelectNode(nodes, tuple)
        arg == Len(tuple)
    IN
    /\ UNCHANGED <<order, tokens, edges, calls, limit, pc, loc>>
    /\ prev' = 0
    /\ IF WrongLength(tuple, order)
       THEN /\ ret' = Result("NodeID", arg, 0, ErrInvalidOrder, 0)
            /\ UNCHANGED nodes /\ NoWrite
       ELSE IF fail = "select"
       THEN /\ ret' = Result("NodeID", arg, 0, ErrStorage, 1)
            /\ UNCHANGED nodes /\ NoWrite
       ELSE IF id # 0
       THEN /\ ret' = Result("NodeID", arg, id, NoErr, 1)
            /\ UNCHANGED nodes /\ NoWrite
       ELSE IF fail = "insert"
       THEN /\ ret' = Result("NodeID", arg, 0, ErrStorage, 2)
            /\ UNCHANGED nodes /\ NoWrite
       ELSE /\ Writes < limit
            /\ nodes' = InsertNode(nodes, tuple)
            /\ ret' = Result("NodeID", arg, Len(nodes) + 1, NoErr, 2)
            /\ AfterWrite

(***************************************************************************)
(* Graph.AddEdge(prevNode, nextNode, hasSpace).                            *)
(***************************************************************************)
AddEdge(p, n, hs, fail) ==
    LET t == <<p, n, hs>>
    IN
    /\ UNCHANGED <<order, tokens, nodes, limit, pc, loc>>
    /\ prev' = 0
    /\ IF fail = "update"
       THEN /\ ret' = Result("AddEdge", hs, 0, ErrStorage, 1)
            /\ UNCHANGED <<edges, calls>> /\ NoWrite
       ELSE IF RowsAffected(edges, p, n, hs) # 0
       THEN /\ Writes < limit
            /\ edges' = UpdateEdge(edges, p, n, hs)
            /\ calls' = [calls EXCEPT ![t] = @ + 1]
            /\ ret' = Result("AddEdge", hs, 0, NoErr, 1)
            /\ AfterWrite
       ELSE IF fail = "insert"
       THEN /\ ret' = Result("AddEdge", hs, 0, ErrStorage, 2)
            /\ UNCHANGED <<edges, calls>> /\ NoWrite
       ELSE /\ Writes < limit
            /\ edges' = InsertEdge(edges, p, n, hs)
            /\ calls' = [calls EXCEPT ![t] = @ + 1]
            /\ ret' = Result("AddEdge", hs, 0, NoErr, 2)
            /\ AfterWrite

(***************************************************************************)
(* Graph.BeginTransaction.  The probe QueryRow("SELECT 1 FROM              *)
(* sqlite_master LIMIT 0").Scan() finds no row, so Row.Scan returns        *)
(* sql.ErrNoRows (or the storage's error); BEGIN is sent only when the     *)
(* error's text is "sql: Scan called without calling Next".                *)
(***************************************************************************)
ErrNoRowsText == "sql: no rows in result set"
ErrScanText == "sql: Scan called without calling Next"

ProbeError(fail) == IF fail = "probe" THEN ErrStorage ELSE ErrNoRowsText

AssumesInTransaction(err) == ~(err # NoErr /\ err = ErrScanText)

BeginTransaction(fail) ==
    /\ UNCHANGED <<order, tokens, nodes, edges, calls, dirty, limit, pc, loc>>
    /\ prev' = 0
    /\ IF AssumesInTransaction(ProbeError(fail))
       THEN /\ inTx' = inTx
            /\ ret' = Result("BeginTransaction", <<>>, 0, NoErr, 1)
       ELSE /\ inTx' = TRUE
            /\ ret' = Result("BeginTransaction", <<>>, 0, NoErr, 2)

(***************************************************************************)
(* Graph.Commit: BEGIN (its error dropped), COMMIT, BEGIN.                 *)
(***************************************************************************)
Commit(fail) ==
    /\ UNCHANGED <<order, tokens, nodes, edges, calls, limit, pc, loc>>
    /\ prev' = 0
    /\ IF fail = "commit"
       THEN /\ inTx' = TRUE
            /\ dirty' = dirty
            /\ ret' = Result("Commit", <<>>, 0, ErrStorage, 2)
       ELSE /\ dirty' = FALSE
            /\ inTx' = (fail # "begin")
            /\ ret' = Result("Commit", <<>>, 0,
                             IF fail = "begin" THEN ErrStorage ELSE NoErr, 3)

(***************************************************************************)
(* The store after NewGraph, used by one caller at a time.                 *)
(***************************************************************************)
\* the handle NewGraph returns is open and has the recorded order; no
\* request is being served
OpenedIdle ==
    /\ info = order
    /\ closed = FALSE
    /\ plugin = NoPlugin
    /\ editor = NoEditor
    /\ http = [w \in Workers |-> NoRequest]
    /\ cache = FALSE

Opened(cap) ==
    /\ order \in Orders
    /\ tokens = <<>>
    /\ nodes = <<>>
    /\ edges = <<>>
    /\ inTx = FALSE
    /\ dirty = FALSE
    /\ calls = [t \in Triples |-> 0]
    /\ ret = Result("NewGraph", <<>>, 0, NoErr, 0)
    /\ prev = 0
    /\ limit = cap
    /\ pc = [w \in Workers |-> "idle"]
    /\ loc = [w \in Workers |-> <<>>]
    /\ learn = NoLearn
    /\ view = NoView
    /\ walk = NoWalk
    /\ lookup = NoLookup
    /\ api = NoApi
    /\ OpenedIdle

\* the INSERT can fail only when it is sent
TokenIDCall ==
    \E text \in Texts, create \in BOOLEAN :
        \E fail \in IF create /\ SelectToken(tokens, text) = 0
                     THEN {"none", "select", "insert"} ELSE {"none", "select"} :
            GetTokenByText(text, create, fail)

\* no statement is sent, so none can fail, for a tuple of the wrong length
NodeIDCall ==
    \E tuple \in Tuples :
        \E fail \in IF WrongLength(tuple, order) THEN {"none"}
                     ELSE IF SelectNode(nodes, tuple) # 0 THEN {"none", "select"}
                     ELSE {"none", "select", "insert"} :
            GetNodeByTokens(tuple, fail)

AddEdgeCall ==
    \E t \in Triples :
        \E fail \in IF RowsAffected(edges, t[1], t[2], t[3]) # 0
                     THEN {"none", "update"} ELSE {"none", "update", "insert"} :
            AddEdge(t[1], t[2], t[3], fail)

Init == Opened(MaxWrites)

Next ==
    \/ TokenIDCall /\ UNCHANGED client
    \/ NodeIDCall /\ UNCHANGED client
    \/ AddEdgeCall /\ UNCHANGED client
    \/ \E fail \in {"none", "probe"} : BeginTransaction(fail) /\ UNCHANGED client
    \/ \E fail \in {"none", "commit", "begin"} : Commit(fail) /\ UNCHANGED client

Spec == Init /\ [][Next]_vars

\* the tokens table alone, to more rows
InitTokens == Opened(MaxTokens)

NextTokens == TokenIDCall /\ UNCHANGED client

SpecTokens == InitTokens /\ [][NextTokens]_vars

\* the nodes table alone
InitNodes == Opened(MaxNodes)

NextNodes == NodeIDCall /\ UNCHANGED client

SpecNodes == InitNodes /\ [][NextNodes]_vars

\* the edges table alone, to higher counts
InitEdges == Opened(MaxEdgeWrites)

NextEdges == AddEdgeCall /\ UNCHANGED client

SpecEdges == InitEdges /\ [][NextEdges]_vars

(***************************************************************************)
(* The store called by several goroutines at once.  Graph holds no lock    *)
(* and the pool has one connection (SetMaxOpenConns(1)): each Exec or      *)
(* QueryRow takes the connection for one statement, so the statements of   *)
(* concurrent calls interleave one by one.  The code tests nothing before  *)
(* its INSERT but the result of its own earlier SELECT or UPDATE.  The     *)
(* tables are created outside this repository; whether they carry UNIQUE   *)
(* constraints is not decided by the code, so an INSERT of a row that is   *)
(* already stored has both outcomes: unique = TRUE, the table refuses it   *)
(* and the call returns its "failed to insert" error; unique = FALSE, the  *)
(* row is stored a second time.  No other storage fault is injected here.  *)
(***************************************************************************)
\* calls that are between their two statements
Pending == Cardinality({w \in Workers : pc[w] # "idle"})

\* the node INSERT a FindEdgesForContext call in progress has still to send
Reserved == IF lookup.op = "GetNodeByTokens" THEN 1 ELSE 0

Goto(w, label, args) ==
    /\ pc' = [pc EXCEPT ![w] = label]
    /\ loc' = [loc EXCEPT ![w] = args]

\* GetTokenByText(text, true): the SELECT
TokenSelect(w, text) ==
    LET id == SelectToken(tokens, text)
    IN
    /\ pc[w] = "idle"
    /\ UNCHANGED <<order, tokens, nodes, edges, inTx, dirty, calls, limit>>
    /\ prev' = 0
    /\ IF id # 0
       THEN /\ ret' = Result("TokenID", <<text, TRUE>>, id, NoErr, 1)
            /\ UNCHANGED <<pc, loc>>
       ELSE /\ Writes + Pending + Reserved < limit
            /\ UNCHANGED ret
            /\ Goto(w, "tokenInsert", text)

\* GetTokenByText(text, true): the INSERT
TokenInsert(w, unique) ==
    LET text == loc[w]
    IN
    /\ pc[w] = "tokenInsert"
    /\ UNCHANGED <<order, nodes, edges, calls, limit, prev>>
    /\ Goto(w, "idle", <<>>)
    /\ IF unique /\ ~TokenTextFree(tokens, text)
       THEN /\ ret' = Result("TokenID", <<text, TRUE>>, 0, ErrStorage, 2)
            /\ UNCHANGED tokens /\ NoWrite
       ELSE /\ tokens' = InsertToken(tokens, text)
            /\ ret' = Result("TokenID", <<text, TRUE>>, Len(tokens) + 1, NoErr, 2)
            /\ AfterWrite

\* GetNodeByTokens(tuple): the length check and the SELECT
NodeSelect(w, tuple) ==
    LET id == SelectNode(nodes, tuple)
    IN
    /\ pc[w] = "idle"
    /\ UNCHANGED <<order, tokens, nodes, edges, inTx, dirty, calls, limit>>
    /\ prev' = 0
    /\ IF WrongLength(tuple, order)
       THEN /\ ret' = Result("NodeID", Len(tuple), 0, ErrInvalidOrder, 0)
            /\ UNCHANGED <<pc, loc>>
       ELSE IF id # 0
       THEN /\ ret' = Result("NodeID", Len(tuple), id, NoErr, 1)
            /\ UNCHANGED <<pc, loc>>
       ELSE /\ Writes + Pending + Reserved < limit
            /\ UNCHANGED ret
            /\ Goto(w, "nodeInsert", tuple)

\* GetNodeByTokens(tuple): the INSERT
NodeInsert(w, unique) ==
    LET tuple == loc[w]
    IN
    /\ pc[w] = "nodeInsert"
    /\ UNCHANGED <<order, tokens, edges, calls, limit, prev>>
    /\ Goto(w, "idle", <<>>)
    /\ IF unique /\ ~NodeTupleFree(nodes, tuple)
       THEN /\ ret' = Result("NodeID", Len(tuple), 0, ErrStorage, 2)
            /\ UNCHANGED nodes /\ NoWrite
       ELSE /\ nodes' = InsertNode(nodes, tuple)
            /\ ret' = Result("NodeID", Len(tuple), Len(nodes) + 1, NoErr, 2)
            /\ AfterWrite

\* AddEdge(p, n, hs): the UPDATE and result.RowsAffected()
EdgeUpdate(w, p, n, hs) ==
    /\ pc[w] = "idle"
    /\ UNCHANGED <<order, tokens, nodes, limit>>
    /\ prev' = 0
    /\ Writes + Pending + Reserved < limit
    /\ IF RowsAffected(edges, p, n, hs) # 0
       THEN /\ edges' = UpdateEdge(edges, p, n, hs)
            /\ calls' = [calls EXCEPT ![<<p, n, hs>>] = @ + 1]
            /\ ret' = Result("AddEdge", hs, 0, NoErr, 1)
            /\ AfterWrite
            /\ UNCHANGED <<pc, loc>>
       ELSE /\ UNCHANGED <<edges, calls, ret>> /\ NoWrite
            /\ Goto(w, "edgeInsert", <<p, n, hs>>)

\* AddEdge(p, n, hs): the INSERT
EdgeInsert(w, unique) ==
    LET t == loc[w]
    IN
    /\ pc[w] = "edgeInsert"
    /\ UNCHANGED <<order, tokens, nodes, limit, prev>>
    /\ Goto(w, "idle", <<>>)
    /\ calls' = [calls EXCEPT ![t] = @ + 1]
    /\ IF unique /\ ~EdgeTripleFree(edges, t[1], t[2], t[3])
       THEN /\ ret' = Result("AddEdge", t[3], 0, ErrStorage, 2)
            /\ UNCHANGED edges /\ NoWrite
       ELSE /\ edges' = InsertEdge(edges, t[1], t[2], t[3])
            /\ ret' = Result("AddEdge", t[3], 0, NoErr, 2)
            /\ AfterWrite

InitConc == Opened(MaxConcWrites)

NextConc ==
    /\ UNCHANGED client
    /\ \E w \in Workers :
        \/ \E text \in ConcTexts : TokenSelect(w, text)
        \/ \E unique \in BOOLEAN : TokenInsert(w, unique)
        \/ \E tuple \in ConcTuples(order) : NodeSelect(w, tuple)
        \/ \E unique \in BOOLEAN : NodeInsert(w, unique)
        \/ \E t \in ConcTriples : EdgeUpdate(w, t[1], t[2], t[3])
        \/ \E unique \in BOOLEAN : EdgeInsert(w, unique)

SpecConc == InitConc /\ [][NextConc]_vars

(***************************************************************************)
(* Brain.Learn(text), after spec section 4.3: the text's tokens are        *)
(* resolved with TokenID(t, true); each window of `order` consecutive      *)
(* tokens is resolved with NodeID, and an edge is added from the window    *)
(* before it; the writes are grouped by the store's BeginTransaction and   *)
(* Commit.  A store call that returns an error ends the call.  Graph has   *)
(* no operation that undoes a write.  A reader's query goes through the    *)
(* same single connection, between two statements of the Learn call.       *)
(***************************************************************************)
Snapshot == [tokens |-> tokens, nodes |-> nodes, edges |-> edges]

Windows(text) == IF Len(text) >= order THEN Len(text) - order + 1 ELSE 0

\* the writes a Learn of text makes at most
LearnCost(text) == Len(text) + 2 * Windows(text)

Window(ids, j) == [i \in 1..order |-> ids[j + i - 1]]

AfterTokens(l) ==
    IF Len(l.ids) < Len(l.text) THEN "tokens"
    ELSE IF Windows(l.text) > 0 THEN "node" ELSE "commit"

AfterWindow(l) == IF l.j <= Windows(l.text) THEN "node" ELSE "commit"

Returned(l) == l.pc \in {"idle", "done", "failed"}

LearnStart(text) ==
    /\ Returned(learn)
    /\ Writes + LearnCost(text) <= limit
    /\ BeginTransaction("none")
    /\ learn' = [pc |-> "tokens", text |-> text, ids |-> <<>>, j |-> 1,
                 node |-> 0, last |-> 0, pre |-> Snapshot]
    /\ view' = NoView
    /\ UNCHANGED <<walk, lookup, api, handle, web>>

LearnToken(fail) ==
    /\ learn.pc = "tokens"
    /\ GetTokenByText(learn.text[Len(learn.ids) + 1].text, TRUE, fail)
    /\ learn' = IF ret'.err # NoErr THEN [learn EXCEPT !.pc = "failed"]
                ELSE LET l == [learn EXCEPT !.ids = Append(@, ret'.id)]
                     IN [l EXCEPT !.pc = AfterTokens(l)]
    /\ UNCHANGED <<view, walk, lookup, api, handle, web>>

LearnNode(fail) ==
    /\ learn.pc = "node"
    /\ GetNodeByTokens(Window(learn.ids, learn.j), fail)
    /\ learn' = IF ret'.err # NoErr THEN [learn EXCEPT !.pc = "failed"]
                ELSE IF learn.j = 1
                THEN LET l == [learn EXCEPT !.last = ret'.id, !.j = 2]
                     IN [l EXCEPT !.pc = AfterWindow(l)]
                ELSE [learn EXCEPT !.node = ret'.id, !.pc = "edge"]
    /\ UNCHANGED <<view, walk, lookup, api, handle, web>>

LearnEdge(fail) ==
    /\ learn.pc = "edge"
    /\ AddEdge(learn.last, learn.node,
               learn.text[learn.j + order - 1].space, fail)
    /\ learn' = IF ret'.err # NoErr THEN [learn EXCEPT !.pc = "failed"]
                ELSE LET l == [learn EXCEPT !.last = learn.node, !.j = @ + 1]
                     IN [l EXCEPT !.pc = AfterWindow(l)]
    /\ UNCHANGED <<view, walk, lookup, api, handle, web>>

LearnCommit(fail) ==
    /\ learn.pc = "commit"
    /\ Commit(fail)
    /\ learn' = [learn EXCEPT !.pc = IF ret'.err # NoErr THEN "failed" ELSE "done"]
    /\ UNCHANGED <<view, walk, lookup, api, handle, web>>

\* a read-only operation's query, sent while a Learn call is in progress
Read ==
    /\ ~Returned(learn)
    /\ view = NoView
    /\ view' = Snapshot
    /\ UNCHANGED <<store, pc, loc, learn, walk, lookup, api, handle, web>>

InitLearn == Opened(MaxLearnWrites)

NextLearn ==
    \/ \E text \in LearnTexts : LearnStart(text)
    \/ \E fail \in {"none", "select", "insert"} : LearnToken(fail)
    \/ \E fail \in {"none", "select", "insert"} : LearnNode(fail)
    \/ \E fail \in {"none", "update", "insert"} : LearnEdge(fail)
    \/ \E fail \in {"none", "commit", "begin"} : LearnCommit(fail)
    \/ Read

SpecLearn == InitLearn /\ [][NextLearn]_vars

(***************************************************************************)
(* SearchRandomWalk(startID, endID, direction): one action per iteration   *)
(* of its loop.                                                            *)
(***************************************************************************)
\* maxLength := 15
MaxLength == 15
\* ... ORDER BY RANDOM() LIMIT 5
SampleLimit == 5

LoopContinuesLate(i) == i <= MaxLength

\* for i := 0; i < maxLength; i++
LoopContinues(i) == i < MaxLength

\* SELECT id, next_node FROM edges WHERE prev_node = ?   (direction)
\* SELECT id, prev_node FROM edges WHERE next_node = ?   (otherwise)
Incident(cur, dir) ==
    {id \in 1..Len(edges) :
        IF dir THEN edges[id].prev = cur ELSE edges[id].next = cur}

TargetID(id, dir) == IF dir THEN edges[id].next ELSE edges[id].prev

Min(a, b) == IF a < b THEN a ELSE b

\* a sample of 2 rows
SamplesOfTwo(cur, dir) ==
    LET rows == Incident(cur, dir)
    IN {S \in SUBSET rows : Cardinality(S) = Min(2, Cardinality(rows))}

\* ORDER BY RANDOM() LIMIT 5: any 5 of the rows, or all when there are fewer
Samples(cur, dir) ==
    LET rows == Incident(cur, dir)
    IN {S \in SUBSET rows : Cardinality(S) = Min(SampleLimit, Cardinality(rows))}

SkipNone(S, cur, dir) == S

\* if targetID == currentID { continue }
SkipSelfLoops(S, cur, dir) == {id \in S : TargetID(id, dir) # cur}

Walking(startID, cur, endID, dir, i, path) ==
    [pc |-> "loop", start |-> startID, cur |-> cur, endID |-> endID,
     dir |-> dir, i |-> i, path |-> path, err |-> NoErr]

WalkReturn(w, path, err) == [w EXCEPT !.pc = "returned", !.path = path, !.err = err]

SearchRandomWalk(startID, endID, direction) ==
    /\ walk.pc # "loop"
    /\ walk' = Walking(startID, startID, endID, direction, 0, <<>>)
    /\ UNCHANGED <<store, pc, loc, learn, view, lookup, api, handle, web>>

WalkStep(fail) ==
    /\ walk.pc = "loop"
    /\ UNCHANGED <<store, pc, loc, learn, view, lookup, api, handle, web>>
    /\ IF ~LoopContinues(walk.i)
       THEN walk' = WalkReturn(walk, walk.path, NoErr)
       ELSE IF fail = "query"
       THEN walk' = WalkReturn(walk, <<>>, ErrStorage)
       ELSE \E S \in Samples(walk.cur, walk.dir) :
              LET found == SkipSelfLoops(S, walk.cur, walk.dir)
              IN IF found = {}
                 THEN walk' = WalkReturn(walk, walk.path, NoErr)
                 ELSE \E chosen \in found :
                        LET target == TargetID(chosen, walk.dir)
                            path == Append(walk.path, chosen)
                        IN walk' = IF target = walk.endID
                                   THEN WalkReturn([walk EXCEPT !.cur = target],
                                                   path, NoErr)
                                   ELSE Walking(walk.start, target, walk.endID, walk.dir,
                                                walk.i + 1, path)

WalkAddEdge ==
    /\ Writes < limit
    /\ \E t \in WalkTriples : AddEdge(t[1], t[2], t[3], "none")
    /\ UNCHANGED client

InitWalk == Opened(MaxWalkEdges)

NextWalk ==
    \/ WalkAddEdge
    \/ \E s \in WalkIds, e \in WalkIds, d \in BOOLEAN : SearchRandomWalk(s, e, d)
    \/ \E fail \in {"none", "query"} : WalkStep(fail)

\* the goroutine running SearchRandomWalk keeps running
SpecWalk == InitWalk /\ [][NextWalk]_vars /\ WF_vars(\E fail \in {"none", "query"} : WalkStep(fail))

(***************************************************************************)
(* Graph.FindEdgesForContext(tokenIDs), the store's ContextEdges, with     *)
(* findNodeContainingContext and findEdgesFromNode.  The call sends up to  *)
(* three statements (the node SELECT, the node INSERT of GetNodeByTokens,  *)
(* the edges query) and holds the connection for one at a time: each is a  *)
(* step, and other callers' statements may run between two of them.        *)
(***************************************************************************)
\* if len(tokenIDs) < 2
ContextMin == 2
\* the inner SELECT's LIMIT 20 in findNodeContainingContext
NodeScanLimit == 20
\* ORDER BY count DESC LIMIT 20 in findEdgesFromNode
EdgeLimit == 20

\* fmt.Errorf("context too short")
ErrTooShort == "context too short"
\* fmt.Errorf("no matching context found")
ErrNoContext == "no matching context found"

TooShortEmpty(tokenIDs) == Len(tokenIDs) < 1

TooShort(tokenIDs) == Len(tokenIDs) < ContextMin

\* matchIDs := tokenIDs[0:min(len(tokenIDs), g.order)]
MatchIDs(tokenIDs, ord) == SubSeq(tokenIDs, 1, Min(Len(tokenIDs), ord))

\* SELECT nodes.id FROM nodes WHERE token0_id IN (matchIDs)
FirstSlotIn(nds, ids) ==
    {i \in 1..Len(nds) : \E k \in 1..Len(ids) : nds[i].toks[1] = ids[k]}

\* ... LIMIT 20: any 20 of the rows, or all when there are fewer
\* SELECT id FROM nodes WHERE id IN (...) LIMIT 1: any one of those
\* the result is 0 for sql.ErrNoRows
PartialMatches(nds, tokenIDs, ord) ==
    LET rows == FirstSlotIn(nds, MatchIDs(tokenIDs, ord))
        scans == {S \in SUBSET rows :
                     Cardinality(S) = Min(NodeScanLimit, Cardinality(rows))}
    IN IF rows = {} THEN {0} ELSE UNION scans

\* SELECT id FROM edges WHERE prev_node = ?
OutEdges(es, n) == {i \in 1..Len(es) : es[i].prev = n}

\* the order of the unique index on (prev_node, next_node, has_space);
\* false is stored as 0, true as 1
IndexBefore(a, b) ==
    \/ a.prev < b.prev
    \/ a.prev = b.prev /\ a.next < b.next
    \/ a.prev = b.prev /\ a.next = b.next /\ ~a.has_space /\ b.has_space

\* the plans of SELECT ... FROM edges WHERE prev_node = ?: the table is
\* scanned by ascending or by descending id, or the rows are found through
\* the unique index
EdgePlans == {"asc", "desc", "index"}

\* row i is met before row j under the plan; rows of one triple, which a
\* table without the constraint can hold, come by id
MetBefore(es, scan, i, j) ==
    CASE scan = "asc" -> i < j
      [] scan = "desc" -> i > j
      [] scan = "index" ->
           \/ IndexBefore(es[i], es[j])
           \/ ~IndexBefore(es[j], es[i]) /\ i < j

BeforeAscending(es, scan, i, j) ==
    \/ es[i].count < es[j].count
    \/ es[i].count = es[j].count /\ MetBefore(es, scan, i, j)

\* ORDER BY count DESC; rows of one count come in the order the plan meets
\* them
Before(es, scan, i, j) ==
    \/ es[i].count > es[j].count
    \/ es[i].count = es[j].count /\ MetBefore(es, scan, i, j)

RECURSIVE OrderByCountDesc(_, _, _)
OrderByCountDesc(es, S, scan) ==
    IF S = {} THEN <<>>
    ELSE LET first == CHOOSE i \in S : \A j \in S \ {i} : Before(es, scan, i, j)
         IN <<first>> \o OrderByCountDesc(es, S \ {first}, scan)

\* LIMIT n
Limit(rows, n) == SubSeq(rows, 1, Min(n, Len(rows)))

\* findEdgesFromNode's rows when its query does not fail
EdgesFromNode(es, n, scan) == Limit(OrderByCountDesc(es, OutEdges(es, n), scan), EdgeLimit)

\* the rows findEdgesFromNode returns with a nil error: all of them, or,
\* when rows.Next() ends on an error of the storage (fail = "step"), those
\* read before it; rows.Err() is not tested
EdgesRead(es, n, fail, scan) ==
    LET all == EdgesFromNode(es, n, scan)
    IN IF fail = "step"
       THEN {SubSeq(all, 1, k) : k \in 0..(IF all = <<>> THEN 0 ELSE Len(all) - 1)}
       ELSE {all}

\* ctx: the context given; pre: the rows table nodes held when the call
\* sent its first statement; node: the node located; raised: the error the
\* node lookup returned to FindEdgesForContext; stmts: statements sent
Looked(ctx, node, ids, raised, err, stmts, pre) ==
    [op |-> "ContextEdges", ctx |-> ctx, node |-> node, edges |-> ids,
     raised |-> raised, err |-> err, stmts |-> stmts, pre |-> pre]

\* a call between two statements, the connection released: at names the
\* function whose statement comes next
Looking(at, ctx, node, stmts, pre) ==
    [Looked(ctx, node, <<>>, NoErr, NoErr, stmts, pre) EXCEPT !.op = at]

InLookup == lookup.op \in {"GetNodeByTokens", "findEdgesFromNode"}

\* FindEdgesForContext from the return of findNodeContainingContext on, up
\* to the call of findEdgesFromNode
AfterLookup(tokenIDs, node, raised, stmts, pre) ==
    IF raised # NoErr \/ node = 0
    THEN Looked(tokenIDs, 0, <<>>, raised, ErrNoContext, stmts, pre)
    ELSE Looking("findEdgesFromNode", tokenIDs, node, stmts, pre)

\* FindEdgesForContext up to and with the first statement it sends: the
\* SELECT of GetNodeByTokens for a context of `order` ids, the partial-match
\* SELECT of findNodeContainingContext otherwise
FindEdgesForContext(tokenIDs, fail) ==
    LET id == SelectNode(nodes, tokenIDs)
        pre == Len(nodes)
    IN
    /\ ~InLookup
    /\ UNCHANGED <<learn, view, walk, api, handle, web>>
    /\ UNCHANGED <<order, tokens, nodes, edges, inTx, dirty, calls, limit,
                   pc, loc>>
    /\ IF TooShort(tokenIDs)
       THEN /\ lookup' = Looked(tokenIDs, 0, <<>>, NoErr, ErrTooShort, 0, pre)
            /\ UNCHANGED <<ret, prev>>
       ELSE IF Len(tokenIDs) = order
       THEN /\ prev' = 0
            /\ IF fail = "select"
               THEN /\ ret' = Result("NodeID", Len(tokenIDs), 0, ErrStorage, 1)
                    /\ lookup' = AfterLookup(tokenIDs, 0, ErrStorage, 1, pre)
               ELSE IF id # 0
               THEN /\ ret' = Result("NodeID", Len(tokenIDs), id, NoErr, 1)
                    /\ lookup' = AfterLookup(tokenIDs, id, NoErr, 1, pre)
               ELSE /\ Writes + Pending < limit
                    /\ UNCHANGED ret
                    /\ lookup' = Looking("GetNodeByTokens", tokenIDs, 0, 1, pre)
       ELSE /\ UNCHANGED <<ret, prev>>
            /\ IF fail = "select"
               THEN lookup' = AfterLookup(tokenIDs, 0, ErrStorage, 1, pre)
               ELSE \E node \in PartialMatches(nodes, tokenIDs, order) :
                      lookup' = AfterLookup(tokenIDs, node, NoErr, 1, pre)

\* the INSERT of GetNodeByTokens, called by findNodeContainingContext, and
\* the return to FindEdgesForContext.  Other calls may have used the
\* connection since the SELECT: unique says whether the table refuses a
\* tuple stored in between
FindNodeInsert(fail, unique) ==
    LET tuple == lookup.ctx
    IN
    /\ lookup.op = "GetNodeByTokens"
    /\ UNCHANGED <<learn, view, walk, api, handle, web>>
    /\ UNCHANGED <<order, tokens, edges, calls, limit, prev, pc, loc>>
    /\ IF fail = "insert" \/ (unique /\ ~NodeTupleFree(nodes, tuple))
       THEN /\ ret' = Result("NodeID", Len(tuple), 0, ErrStorage, 2)
            /\ UNCHANGED nodes /\ NoWrite
            /\ lookup' = AfterLookup(tuple, 0, ErrStorage, 2, lookup.pre)
       ELSE /\ nodes' = InsertNode(nodes, tuple)
            /\ ret' = Result("NodeID", Len(tuple), Len(nodes) + 1, NoErr, 2)
            /\ AfterWrite
            /\ lookup' = AfterLookup(tuple, Len(nodes) + 1, NoErr, 2,
                                     lookup.pre)

\* findEdgesFromNode, one query and its rows, and the return of
\* FindEdgesForContext
FindEdgesFromNode(fail, scan) ==
    /\ lookup.op = "findEdgesFromNode"
    /\ UNCHANGED <<store, pc, loc, learn, view, walk, api, handle, web>>
    /\ IF fail = "edges"
       THEN lookup' = Looked(lookup.ctx, lookup.node, <<>>, NoErr, ErrStorage,
                             lookup.stmts + 1, lookup.pre)
       ELSE \E rows \in EdgesRead(edges, lookup.node, fail, scan) :
               lookup' = Looked(lookup.ctx, lookup.node, rows, NoErr, NoErr,
                                lookup.stmts + 1, lookup.pre)

ContextEdgesCall ==
    \E tokenIDs \in Contexts, fail \in {"none", "select"} :
        FindEdgesForContext(tokenIDs, fail)

\* the goroutine that calls the store besides the one looking a context up
Other == CHOOSE w \in Workers : TRUE

\* the other goroutine calls GetNodeByTokens and AddEdge, statement by
\* statement, before the store is asked for contexts and between the
\* statements of a call: the first statement of such a call
ContextNodeID ==
    /\ lookup = NoLookup \/ InLookup
    /\ \E tuple \in [1..order -> TokenIds] : NodeSelect(Other, tuple)
    /\ UNCHANGED client

ContextAddEdge ==
    /\ lookup = NoLookup \/ InLookup
    /\ \E t \in ContextTriples : EdgeUpdate(Other, t[1], t[2], t[3])
    /\ UNCHANGED client

\* the INSERT of such a call, whatever the lookup has done since its first
\* statement
ContextNodeInsert ==
    /\ \E unique \in BOOLEAN : NodeInsert(Other, unique)
    /\ UNCHANGED client

ContextEdgeInsert ==
    /\ \E unique \in BOOLEAN : EdgeInsert(Other, unique)
    /\ UNCHANGED client

InitContext == Opened(MaxContextWrites)

NextContext ==
    \/ ContextNodeID
    \/ ContextNodeInsert
    \/ ContextAddEdge
    \/ ContextEdgeInsert
    \/ ContextEdgesCall
    \/ \E fail \in {"none", "insert"}, unique \in BOOLEAN :
          FindNodeInsert(fail, unique)
    \/ \E fail \in {"none", "edges", "step"}, scan \in EdgePlans :
          FindEdgesFromNode(fail, scan)

SpecContext == InitContext /\ [][NextContext]_vars

(***************************************************************************)
(* FindEdgesForContext on a store that has learned many edges: two tokens, *)
(* their two nodes, and MaxOutEdges edges, all but the last leaving node   *)
(* 1.  Every edge has count 1 but at most two: any one seen twice, and the *)
(* first or the last that leaves node 1 seen three times.                  *)
(***************************************************************************)
ManyEdges(h2, h3) ==
    [i \in 1..MaxOutEdges |->
        [prev |-> IF i = MaxOutEdges THEN 2 ELSE 1,
         next |-> (i + 1) \div 2,
         has_space |-> (i % 2 = 1),
         count |-> IF i = h3 THEN 3 ELSE IF i = h2 THEN 2 ELSE 1]]

CallsOf(es) ==
    [t \in Triples |->
        LET rows == {i \in 1..Len(es) : EdgeMatches(es[i], t[1], t[2], t[3])}
        IN IF rows = {} THEN 0 ELSE es[CHOOSE i \in rows : TRUE].count]

InitOut ==
    /\ order \in Orders
    /\ tokens = InsertToken(InsertToken(<<>>, <<"a">>), <<",">>)
    /\ nodes = InsertNode(InsertNode(<<>>, [i \in 1..order |-> 1]),
                          [i \in 1..order |-> 2])
    /\ \E h2 \in 0..MaxOutEdges, h3 \in {0, 1, MaxOutEdges - 1} :
          edges = ManyEdges(h2, h3)
    /\ calls = CallsOf(edges)
    /\ limit = Writes
    /\ inTx = FALSE
    /\ dirty = FALSE
    /\ ret = Result("NewGraph", <<>>, 0, NoErr, 0)
    /\ prev = 0
    /\ pc = [w \in Workers |-> "idle"]
    /\ loc = [w \in Workers |-> <<>>]
    /\ learn = NoLearn
    /\ view = NoView
    /\ walk = NoWalk
    /\ lookup = NoLookup
    /\ api = NoApi
    /\ OpenedIdle

\* contexts that lead to the two nodes, by the exact and by the partial match
OutContexts == {<<1, 1>>, <<2, 2>>, <<1, 1, 1>>}

\* a run asks the store once
NextOut ==
    \/ /\ lookup = NoLookup
       /\ \E tokenIDs \in OutContexts, fail \in {"none", "select"} :
             FindEdgesForContext(tokenIDs, fail)
    \/ \E fail \in {"none", "edges", "step"}, scan \in EdgePlans :
          FindEdgesFromNode(fail, scan)

SpecOut == InitOut /\ [][NextOut]_vars

(***************************************************************************)
(* selectReplyByPrecision(replies, precision), package api.                *)
(***************************************************************************)
\* precision > 0.9, in hundredths
HighPrecision == 90
\* precision > 0.7, in hundredths
MidPrecision == 70

\* len(strings.Fields(text)): the maximal runs of characters other than
\* white space
WordCount(text) ==
    Cardinality({i \in 1..Len(text) :
                    text[i] # " " /\ (i = 1 \/ text[i - 1] = " ")})

ShorterOrEqual(currLen, shortestLen) == currLen <= shortestLen

\* if currLen < shortestLen
Shorter(currLen, shortestLen) == currLen < shortestLen

\* for i := 1; i < len(replies); i++ { ... shortestIdx = i }
RECURSIVE ShortestFrom(_, _, _)
ShortestFrom(replies, i, shortestIdx) ==
    IF i > Len(replies) THEN shortestIdx
    ELSE ShortestFrom(replies, i + 1,
             IF Shorter(WordCount(replies[i]), WordCount(replies[shortestIdx]))
             THEN i ELSE shortestIdx)

OutOfOrderNever(a, b) == FALSE

\* if sortedLengths[i].length > sortedLengths[j].length
OutOfOrder(a, b) == a.length > b.length

\* sortedLengths[i], sortedLengths[j] = sortedLengths[j], sortedLengths[i]
Swap(sl, i, j) == [sl EXCEPT ![i] = sl[j], ![j] = sl[i]]

\* for j := i + 1; j < len(sortedLengths); j++
RECURSIVE InnerLoop(_, _, _)
InnerLoop(sl, i, j) ==
    IF j > Len(sl) THEN sl
    ELSE InnerLoop(IF OutOfOrder(sl[i], sl[j]) THEN Swap(sl, i, j) ELSE sl,
                   i, j + 1)

\* for i := 0; i < len(sortedLengths); i++
RECURSIVE OuterLoop(_, _)
OuterLoop(sl, i) ==
    IF i > Len(sl) THEN sl ELSE OuterLoop(InnerLoop(sl, i, i + 1), i + 1)

SortedLengths(replies) ==
    OuterLoop([i \in 1..Len(replies) |->
                  [idx |-> i, length |-> WordCount(replies[i])]], 1)

\* sortedLengths[len(sortedLengths)/2].idx, indices from 1
MidIdx(replies) == SortedLengths(replies)[Len(replies) \div 2 + 1].idx

SomeText == <<"a">>

\* return ""
EmptyText == <<>>

\* the replies the function can return; more than one only where it calls
\* rand.Intn
SelectReplyByPrecision(replies, precision) ==
    IF Len(replies) = 0 THEN {EmptyText}
    ELSE IF Len(replies) = 1 THEN {replies[1]}
    ELSE IF precision > HighPrecision
    THEN {replies[ShortestFrom(replies, 2, 1)]}
    ELSE IF precision > MidPrecision THEN {replies[MidIdx(replies)]}
    ELSE {replies[i] : i \in 1..Len(replies)}

Select ==
    /\ api.op = "candidates"
    /\ \E reply \in SelectReplyByPrecision(api.replies, api.precision) :
          api' = [api EXCEPT !.op = "selected", !.reply = reply]
    /\ UNCHANGED <<store, pc, loc, learn, view, walk, lookup, handle, web>>

InitSelect ==
    /\ order \in Orders
    /\ tokens = <<>>
    /\ nodes = <<>>
    /\ edges = <<>>
    /\ inTx = FALSE
    /\ dirty = FALSE
    /\ calls = [t \in Triples |-> 0]
    /\ ret = Result("NewGraph", <<>>, 0, NoErr, 0)
    /\ prev = 0
    /\ limit = 0
    /\ pc = [w \in Workers |-> "idle"]
    /\ loc = [w \in Workers |-> <<>>]
    /\ learn = NoLearn
    /\ view = NoView
    /\ walk = NoWalk
    /\ lookup = NoLookup
    /\ OpenedIdle
    /\ \E replies \in Candidates, precision \in Precisions :
          api = [op |-> "candidates", replies |-> replies,
                 precision |-> precision, reply |-> <<>>]

NextSelect == Select

SpecSelect == InitSelect /\ [][NextSelect]_vars

(***************************************************************************)
(* The HTTP handlers of package api, Handler.Predict and Handler.Learn.    *)
(* The Brain is an interface to them: Reply returns a text or an error,    *)
(* Learn returns an error or none, EnableCache and DisableCache set the    *)
(* Brain's toggle, which Reply reads.  Request texts carry no marker line, *)
(* so that the filetype is "text".                                         *)
(***************************************************************************)
StatusOK == 200
StatusBadRequest == 400
StatusMethodNotAllowed == 405
StatusInternalServerError == 500
\* precision = 0.7 // Default precision
DefaultPrecision == 70
\* precision = 1.0 // Cap at 1.0
FullPrecision == 100
\* numResponses := 3
FewResponses == 3
\* numResponses = 5
ManyResponses == 5

\* a response without a reply payload
NoPayload == "none"

\* the length of the run of characters other than blanks that text begins
\* with
RECURSIVE WordEnd(_, _)
WordEnd(text, i) ==
    IF i < Len(text) /\ text[i + 1] # " " THEN WordEnd(text, i + 1) ELSE i

\* strings.Fields(text)
RECURSIVE Fields(_)
Fields(text) ==
    IF text = <<>> THEN <<>>
    ELSE IF Head(text) = " " THEN Fields(Tail(text))
    ELSE LET n == WordEnd(text, 1)
         IN <<SubSeq(text, 1, n)>> \o Fields(SubSeq(text, n + 1, Len(text)))

\* strings.Join(words, sep)
RECURSIVE Join(_, _)
Join(words, sep) ==
    IF words = <<>> THEN <<>>
    ELSE IF Len(words) = 1 THEN words[1]
    ELSE words[1] \o sep \o Join(Tail(words), sep)

KeepLast(words, maxWords) ==
    SubSeq(words, Len(words) - maxWords + 1, Len(words))

\* words[:maxWords]
KeepFirst(words, maxWords) == SubSeq(words, 1, maxWords)

\* limitWords(text, maxWords)
LimitWords(text, maxWords) ==
    IF maxWords <= 0 THEN text
    ELSE LET words == Fields(text)
         IN IF Len(words) <= maxWords THEN text
            ELSE Join(KeepFirst(words, maxWords), <<" ">>)

\* strings.TrimSpace(text)
RECURSIVE TrimSpace(_)
TrimSpace(text) ==
    IF text = <<>> THEN text
    ELSE IF Head(text) = " " THEN TrimSpace(Tail(text))
    ELSE IF text[Len(text)] = " " THEN TrimSpace(SubSeq(text, 1, Len(text) - 1))
    ELSE text

\* extractCodeMetadata(text) of a text without marker lines or line breaks:
\* the filetype is "text" and the text is trimmed
ExtractCodeMetadata(text) == [filetype |-> "text", text |-> TrimSpace(text)]

\* postProcessCodeReply(reply, filetype) for the filetypes "text" and ""
PostProcessTextReply(reply) == reply

\* if precision <= 0 ... if precision > 1 ...
ClampPrecision(asked) ==
    IF asked <= 0 THEN DefaultPrecision
    ELSE IF asked > FullPrecision THEN FullPrecision ELSE asked

IsHighOrEqual(precision) == precision >= HighPrecision

\* if precision > 0.9
IsHigh(precision) == precision > HighPrecision

\* the number of Brain.Reply calls Predict makes when none fails
NumResponses(precision) ==
    IF precision > MidPrecision
    THEN IF IsHigh(precision) THEN ManyResponses ELSE FewResponses
    ELSE 1

\* the reply Predict takes from the replies of its calls
PredictChoice(replies, precision) ==
    IF precision > MidPrecision
    THEN SelectReplyByPrecision(replies, precision)
    ELSE {replies[1]}

Called(op, arg, cached, ok) == [op |-> op, arg |-> arg, cache |-> cached, ok |-> ok]

Responded(rq, status, reply) ==
    [rq EXCEPT !.pc = "done", !.status = status, !.reply = reply]

Serving(kind, method, body) ==
    [pc |-> "start", kind |-> kind, method |-> method, body |-> body,
     trace |-> <<>>, status |-> 0, reply |-> NoPayload, overlap |-> FALSE]

PredictRequest(method, body, precision, useCache, maxWords) ==
    [r \in {"precision", "use_cache", "max_words", "replies", "chosen"}
        |-> CASE r = "precision" -> precision
              [] r = "use_cache" -> useCache
              [] r = "max_words" -> maxWords
              [] r = "replies" -> <<>>
              [] r = "chosen" -> <<>>]
    @@ Serving("predict", method, body)

LearnRequest(method, body, text, context) ==
    [r \in {"text", "context"} |-> IF r = "text" THEN text ELSE context]
    @@ Serving("learn", method, body)

Busy(w) == http[w].pc \notin {"idle", "done"}

\* a request arrives; one that arrives while another is served overlaps it
Arrive(w, rq) ==
    /\ ~Busy(w)
    /\ http' = [v \in Workers |->
                  IF v = w THEN [rq EXCEPT !.overlap = \E u \in Workers : Busy(u)]
                  ELSE IF Busy(v) THEN [http[v] EXCEPT !.overlap = TRUE]
                  ELSE http[v]]
    /\ UNCHANGED <<store, pc, loc, learn, view, walk, lookup, api, handle, cache>>

RejectedNever(rq) == StatusOK

\* r.Method != http.MethodPost, then json.NewDecoder(r.Body).Decode(&req)
Rejected(rq) ==
    IF rq.method # "POST" THEN StatusMethodNotAllowed
    ELSE IF rq.body # "json" THEN StatusBadRequest
    ELSE StatusOK

SetCacheOn(useCache) == TRUE

\* EnableCache() if req.UseCache, DisableCache() otherwise
SetCache(useCache) == useCache

\* Predict up to its first Brain.Reply call
PredictBegin(w) ==
    LET rq == http[w]
    IN
    /\ rq.pc = "start" /\ rq.kind = "predict"
    /\ UNCHANGED <<store, pc, loc, learn, view, walk, lookup, api, handle>>
    /\ IF Rejected(rq) # StatusOK
       THEN /\ http' = [http EXCEPT ![w] = Responded(rq, Rejected(rq), NoPayload)]
            /\ UNCHANGED cache
       ELSE /\ cache' = SetCache(rq.use_cache)
            /\ http' = [http EXCEPT ![w] =
                 [rq EXCEPT !.pc = "reply",
                            !.trace = Append(@, Called(
                                IF rq.use_cache THEN "EnableCache" ELSE "DisableCache",
                                <<>>, cache', TRUE))]]

\* the toggle as Brain.Reply reads it
CacheAtReply == cache

\* one Brain.Reply call of Predict and what follows it
PredictReply(w, text, ok) ==
    LET rq == http[w]
        precision == ClampPrecision(rq.precision)
        replies == Append(rq.replies, text)
        called == [rq EXCEPT !.trace = Append(@, Called("Reply", <<>>, CacheAtReply, ok)),
                             !.replies = IF ok THEN replies ELSE @]
    IN
    /\ rq.pc = "reply"
    /\ UNCHANGED <<store, pc, loc, learn, view, walk, lookup, api, handle, cache>>
    /\ IF ~ok
       THEN http' = [http EXCEPT ![w] =
                        Responded(called, StatusInternalServerError, NoPayload)]
       ELSE IF Len(replies) < NumResponses(precision)
       THEN http' = [http EXCEPT ![w] = called]
       ELSE \E reply \in PredictChoice(replies, precision) :
              LET chosen == PostProcessTextReply(reply)
              IN http' = [http EXCEPT ![w] =
                    Responded([called EXCEPT !.chosen = chosen], StatusOK,
                              IF rq.max_words > 0
                              THEN LimitWords(chosen, rq.max_words) ELSE chosen)]

\* Handler.Learn up to the return of Brain.Learn
HandleLearn(w, ok) ==
    LET rq == http[w]
        cleanText == ExtractCodeMetadata(rq.text).text
        learned == [rq EXCEPT !.trace = Append(@, Called("Learn", cleanText, cache, ok))]
    IN
    /\ rq.pc = "start" /\ rq.kind = "learn"
    /\ UNCHANGED <<store, pc, loc, learn, view, walk, lookup, api, handle, cache>>
    /\ IF Rejected(rq) # StatusOK
       THEN http' = [http EXCEPT ![w] = Responded(rq, Rejected(rq), NoPayload)]
       ELSE IF ~ok
       THEN http' = [http EXCEPT ![w] =
                        Responded(learned, StatusInternalServerError, NoPayload)]
       ELSE IF Len(rq.context) > 0 /\ Len(cleanText) > 0
       THEN http' = [http EXCEPT ![w] = [learned EXCEPT !.pc = "remember"]]
       ELSE http' = [http EXCEPT ![w] = Responded(learned, StatusOK, NoPayload)]

\* Handler.Learn from h.Brain.RememberCompletion(req.Context, cleanText) on;
\* requests of other goroutines may have been served since Brain.Learn
LearnRemember(w) ==
    LET rq == http[w]
        cleanText == ExtractCodeMetadata(rq.text).text
    IN
    /\ rq.pc = "remember"
    /\ UNCHANGED <<store, pc, loc, learn, view, walk, lookup, api, handle, cache>>
    /\ http' = [http EXCEPT ![w] =
          Responded([rq EXCEPT !.trace = Append(@,
                        Called("RememberCompletion", <<rq.context, cleanText>>,
                               cache, TRUE))], StatusOK, NoPayload)]

\* the goroutine that serves one request after the other in SpecPredict
Servers == {1}

\* a run of SpecPredict serves one request
PredictArrives(w) ==
    /\ http[w].pc = "idle"
    /\ \E method \in {"POST", "GET"}, body \in {"json", "malformed"},
       precision \in AskedPrecisions, useCache \in BOOLEAN,
       maxWords \in AskedMaxWords :
        Arrive(w, PredictRequest(method, body, precision, useCache, maxWords))

LearnArrives(w) ==
    /\ http[w].pc = "idle"
    /\ \E method \in {"POST", "GET"}, body \in {"json", "malformed"},
       text \in LearnBodies, context \in LearnContexts :
        Arrive(w, LearnRequest(method, body, text, context))

InitPredict == Opened(0)

NextPredict ==
    \E w \in Servers :
        \/ PredictArrives(w)
        \/ LearnArrives(w)
        \/ PredictBegin(w)
        \/ \E text \in PredictReplies : PredictReply(w, text, TRUE)
        \/ PredictReply(w, <<>>, FALSE)
        \/ \E ok \in BOOLEAN : HandleLearn(w, ok)
        \/ LearnRemember(w)

SpecPredict == InitPredict /\ [][NextPredict]_vars

\* two requests at a time: Predict requests of one or three Brain.Reply
\* calls each, and Learn requests that remember a completion
CacheRequests ==
    {PredictRequest("POST", "json", precision, useCache, 0) :
        precision \in {50, 80}, useCache \in BOOLEAN}

InitCache == Opened(0)

NextCache ==
    \E w \in Workers :
        \/ \E rq \in CacheRequests : Arrive(w, rq)
        \/ PredictBegin(w)
        \/ PredictReply(w, <<"a">>, TRUE)
        \/ Arrive(w, LearnRequest("POST", "json", <<"a">>, <<"c">>))
        \/ HandleLearn(w, TRUE)
        \/ LearnRemember(w)

SpecCache == InitCache /\ [][NextCache]_vars

(***************************************************************************)
(* Graph.GetRandomToken and Graph.GetRandomNodeWithToken, the store's      *)
(* RandomToken and RandomTokenWithNode: a count of the rows selected, then *)
(* the row of the same selection at offset rand.Intn(count).               *)
(***************************************************************************)
\* fmt.Errorf("no tokens in database"), the store's EmptyStore
ErrEmptyStore == "no tokens in database"

AnyText(t) == TRUE

\* WHERE text != ''
NonEmptyText(t) == t.text # <<>>

TokensWithText(toks) == {i \in 1..Len(toks) : NonEmptyText(toks[i])}

AnySlotIs(n, tokenID) == \E k \in 1..Len(n.toks) : n.toks[k] = tokenID

\* WHERE token0_id = ?
Token0Is(n, tokenID) == n.toks[1] = tokenID

NodesWithToken0(nds, tokenID) == {i \in 1..Len(nds) : Token0Is(nds[i], tokenID)}

\* rand.Intn(count); no number is drawn for count = 0
Offsets(count) == IF count = 0 THEN {0} ELSE 0..(count - 1)

\* the characters of the texts, in the order of their bytes
Bytes ==
    <<"\t", "\n", "\\v", "\f", "\r", " ", "!", ",", "-", ".", "0", "1", "9",
      ":", ";", "?", "A", "B", "Z", "_", "a", "b", "c", "d", "e", "h", "l",
      "o", "r", "w">>

Byte(ch) == CHOOSE k \in 1..Len(Bytes) : Bytes[k] = ch

\* the BINARY collation of two texts: the first byte that differs decides,
\* a prefix comes first
RECURSIVE TextBefore(_, _)
TextBefore(a, b) ==
    IF b = <<>> THEN FALSE
    ELSE IF a = <<>> THEN TRUE
    ELSE IF Head(a) = Head(b) THEN TextBefore(Tail(a), Tail(b))
    ELSE Byte(Head(a)) < Byte(Head(b))

\* the order of two tuples of ids in an index on (token0_id, token1_id, ...)
RECURSIVE TupleBefore(_, _)
TupleBefore(a, b) ==
    IF a = <<>> \/ b = <<>> THEN FALSE
    ELSE IF Head(a) = Head(b) THEN TupleBefore(Tail(a), Tail(b))
    ELSE Head(a) < Head(b)

\* the plans of a SELECT with no ORDER BY: the table is scanned by
\* ascending or by descending id, or, where the table has one, the rows
\* are read from the index on tokens.text or on the nodes' token columns
RowPlans == {"asc", "desc", "index"}

\* met[i, j]: token row i is met before token row j under the plan; rows
\* of one text come by id
TokenMetBefore(toks, scan) ==
    [i \in 1..Len(toks), j \in 1..Len(toks) |->
        CASE scan = "asc" -> i < j
          [] scan = "desc" -> i > j
          [] scan = "index" ->
               \/ TextBefore(toks[i].text, toks[j].text)
               \/ toks[i].text = toks[j].text /\ i < j]

\* met[i, j]: node row i is met before node row j under the plan
NodeMetBefore(nds, scan) ==
    [i \in 1..Len(nds), j \in 1..Len(nds) |->
        CASE scan = "asc" -> i < j
          [] scan = "desc" -> i > j
          [] scan = "index" ->
               \/ TupleBefore(nds[i].toks, nds[j].toks)
               \/ nds[i].toks = nds[j].toks /\ i < j]

\* LIMIT 1 OFFSET offset, with no ORDER BY: the row that offset rows
\* precede in the order met of the plan
RowAt(S, offset, met) ==
    CHOOSE i \in S : Cardinality({j \in S : met[j, i]}) = offset

\* the ids a call can return from a selection of count rows
Drawn(S, met) == {RowAt(S, offset, met) : offset \in 0..(Cardinality(S) - 1)}

GetRandomToken(fail, offset, scan) ==
    LET rows == TokensWithText(tokens)
    IN
    /\ UNCHANGED <<order, tokens, nodes, edges, calls, limit, pc, loc>>
    /\ NoWrite
    /\ prev' = 0
    /\ ret' = IF fail = "count"
              THEN Result("RandomToken", <<>>, 0, ErrStorage, 1)
              ELSE IF Cardinality(rows) = 0
              THEN Result("RandomToken", <<>>, 0, ErrEmptyStore, 1)
              ELSE IF fail = "select"
              THEN Result("RandomToken", <<>>, 0, ErrStorage, 2)
              ELSE Result("RandomToken", <<>>,
                          RowAt(rows, offset,
                                TokenMetBefore(tokens, scan)),
                          NoErr, 2)

GetRandomNodeWithToken(tokenID, fail, offset, scan) ==
    LET rows == NodesWithToken0(nodes, tokenID)
    IN
    /\ UNCHANGED <<order, tokens, nodes, edges, calls, limit, pc, loc>>
    /\ NoWrite
    /\ prev' = 0
    /\ ret' = IF fail = "count"
              THEN Result("RandomNode", tokenID, 0, ErrStorage, 1)
              ELSE IF Cardinality(rows) = 0
              THEN Result("RandomNode", tokenID, 0, NoErr, 1)
              ELSE IF fail = "select"
              THEN Result("RandomNode", tokenID, 0, ErrStorage, 2)
              ELSE Result("RandomNode", tokenID,
                          RowAt(rows, offset,
                                NodeMetBefore(nodes, scan)),
                          NoErr, 2)

\* the second statement can fail only when it is sent
RandomFaults(rows) ==
    IF rows = {} THEN {"none", "count"} ELSE {"none", "count", "select"}

RandomTokenCall ==
    \E scan \in RowPlans, fail \in RandomFaults(TokensWithText(tokens)) :
        \E offset \in Offsets(Cardinality(TokensWithText(tokens))) :
            GetRandomToken(fail, offset, scan)

RandomNodeCall ==
    \E tokenID \in TokenIds, scan \in RowPlans :
        \E fail \in RandomFaults(NodesWithToken0(nodes, tokenID)) :
            \E offset \in Offsets(Cardinality(NodesWithToken0(nodes, tokenID))) :
                GetRandomNodeWithToken(tokenID, fail, offset, scan)

InitRandom == Opened(MaxWrites)

NextRandom ==
    \/ TokenIDCall /\ UNCHANGED client
    \/ NodeIDCall /\ UNCHANGED client
    \/ RandomTokenCall /\ UNCHANGED client
    \/ RandomNodeCall /\ UNCHANGED client

SpecRandom == InitRandom /\ [][NextRandom]_vars

(***************************************************************************)
(* Graph.Close: g.Conn.Close().  On a closed sql.DB every statement fails  *)
(* ("sql: database is closed"), so a call made afterwards stops at the     *)
(* first statement it sends, if it sends one.                              *)
(***************************************************************************)
Close ==
    /\ ~closed
    /\ closed' = TRUE
    /\ ret' = Result("Close", <<>>, 0, NoErr, 0)
    /\ prev' = 0
    /\ UNCHANGED <<order, tokens, nodes, edges, inTx, dirty, calls, limit,
                   pc, loc, learn, view, walk, lookup, api, info, plugin,
                   editor, web>>

ClosedTokenID ==
    \E text \in Texts, create \in BOOLEAN :
        GetTokenByText(text, create, "select") /\ UNCHANGED client

ClosedNodeID ==
    \E tuple \in Tuples : GetNodeByTokens(tuple, "select") /\ UNCHANGED client

ClosedAddEdge ==
    \E t \in Triples : AddEdge(t[1], t[2], t[3], "update") /\ UNCHANGED client

ClosedRandomToken ==
    \E scan \in RowPlans :
        GetRandomToken("count", 0, scan) /\ UNCHANGED client

ClosedRandomNode ==
    \E tokenID \in TokenIds, scan \in RowPlans :
        GetRandomNodeWithToken(tokenID, "count", 0, scan) /\ UNCHANGED client

ClosedContextEdges ==
    \E tokenIDs \in Contexts : FindEdgesForContext(tokenIDs, "select")

InitClosed == Opened(MaxWrites)

NextClosed ==
    \/ ~closed /\ TokenIDCall /\ UNCHANGED client
    \/ ~closed /\ NodeIDCall /\ UNCHANGED client
    \/ ~closed /\ AddEdgeCall /\ UNCHANGED client
    \/ Close
    \/ closed /\ ClosedTokenID
    \/ closed /\ ClosedNodeID
    \/ closed /\ ClosedAddEdge
    \/ closed /\ ClosedRandomToken
    \/ closed /\ ClosedRandomNode
    \/ closed /\ ClosedContextEdges

SpecClosed == InitClosed /\ [][NextClosed]_vars

(***************************************************************************)
(* NewGraph(dbPath): the order is read from the info table.  The opener's  *)
(* own expectation of the order is no argument of NewGraph; asked is what  *)
(* the opener expects, kept in the result for the record only.             *)
(***************************************************************************)
\* no row of attribute 'order' in table info
NoOrder == 0

\* no Graph has been returned yet
Unopened ==
    /\ order = NoOrder
    /\ info \in Orders \cup {NoOrder}
    /\ tokens = <<>>
    /\ nodes = <<>>
    /\ edges = <<>>
    /\ inTx = FALSE
    /\ dirty = FALSE
    /\ calls = [t \in Triples |-> 0]
    /\ ret = Result("none", <<>>, 0, NoErr, 0)
    /\ prev = 0
    /\ limit = MaxWrites
    /\ pc = [w \in Workers |-> "idle"]
    /\ loc = [w \in Workers |-> <<>>]
    /\ learn = NoLearn
    /\ view = NoView
    /\ walk = NoWalk
    /\ lookup = NoLookup
    /\ api = NoApi
    /\ closed = FALSE
    /\ plugin = NoPlugin
    /\ editor = NoEditor
    /\ http = [w \in Workers |-> NoRequest]
    /\ cache = FALSE

\* the PRAGMA statements sent after the order is read: cache_size,
\* synchronous, journal_mode, temp_store, mmap_size, page_size
Pragmas == 6

\* fail: "ping", "select", or "pragma" for a PRAGMA statement that fails,
\* which is printed and goes on
NewGraph(asked, fail) ==
    /\ order = NoOrder
    /\ UNCHANGED <<tokens, nodes, edges, inTx, dirty, calls, limit, pc, loc,
                   client>>
    /\ prev' = 0
    /\ IF fail = "ping"
       THEN /\ ret' = Result("NewGraph", asked, 0, ErrStorage, 0)
            /\ UNCHANGED order
       ELSE IF fail = "select" \/ info = NoOrder
       THEN /\ ret' = Result("NewGraph", asked, 0, ErrStorage, 1)
            /\ UNCHANGED order
       ELSE /\ ret' = Result("NewGraph", asked, 0, NoErr, 1 + Pragmas)
            /\ order' = info

\* Graph.Order()
Order == order

InitOpen == Unopened

NextOpen ==
    \/ \E asked \in Orders, fail \in {"none", "ping", "select", "pragma"} :
          NewGraph(asked, fail)
    \/ order # NoOrder /\ TokenIDCall /\ UNCHANGED client
    \/ order # NoOrder /\ NodeIDCall /\ UNCHANGED client
    \/ order # NoOrder /\ AddEdgeCall /\ UNCHANGED client

SpecOpen == InitOpen /\ [][NextOpen]_vars

(***************************************************************************)
(* Graph.GetWordTokens(tokenIDs), the store's WordTokens.                  *)
(***************************************************************************)
\* texts of the tokens a run of SpecWords creates
WordTexts == {<<"a">>, <<",">>, <<>>, <<",", "_">>, <<"-", "-">>}

\* the id lists asked: known and unknown ids, one id twice
WordQueries ==
    {<<>>, <<1>>, <<2>>, <<3>>, <<1, 2>>, <<2, 1>>, <<1, 1>>, <<2, 3>>}

FlaggedAny(t) == TRUE

\* AND is_word = 1
FlaggedWord(t) == t.is_word

\* WHERE id IN (...) AND is_word = 1
WordRows(toks, tokenIDs) ==
    {i \in 1..Len(toks) :
        /\ \E k \in 1..Len(tokenIDs) : tokenIDs[k] = i
        /\ FlaggedWord(toks[i])}

\* the rows as rows.Next() gives them, in the order of the scan
RECURSIVE Scanned(_, _)
Scanned(S, scan) ==
    IF S = {} THEN <<>>
    ELSE LET first == CHOOSE i \in S :
                        \A j \in S : IF scan = "asc" THEN i <= j ELSE i >= j
         IN <<first>> \o Scanned(S \ {first}, scan)

GetWordTokens(tokenIDs, fail, scan) ==
    /\ UNCHANGED <<order, tokens, nodes, edges, calls, limit, pc, loc>>
    /\ NoWrite
    /\ prev' = 0
    /\ ret' = IF Len(tokenIDs) = 0
              THEN Result("WordTokens", tokenIDs, <<>>, NoErr, 0)
              ELSE IF fail = "query"
              THEN Result("WordTokens", tokenIDs, <<>>, ErrStorage, 1)
              ELSE Result("WordTokens", tokenIDs,
                          Scanned(WordRows(tokens, tokenIDs), scan), NoErr, 1)

WordTokensCall ==
    \E tokenIDs \in WordQueries, scan \in {"asc", "desc"} :
        \E fail \in IF Len(tokenIDs) = 0 THEN {"none"} ELSE {"none", "query"} :
            GetWordTokens(tokenIDs, fail, scan)

WordTokenID ==
    \E text \in WordTexts, create \in BOOLEAN :
        GetTokenByText(text, create, "none")

InitWords == Opened(MaxTokens)

NextWords ==
    \/ WordTokenID /\ UNCHANGED client
    \/ WordTokensCall /\ UNCHANGED client

SpecWords == InitWords /\ [][NextWords]_vars

(***************************************************************************)
(* Graph.GetTextByEdge(edgeID), the store's EdgeText: the text of the      *)
(* first token of the edge's next node, and the edge's has_space.          *)
(***************************************************************************)
EdgePrev(es, edgeID) == es[edgeID].prev

\* SELECT next_node, has_space FROM edges WHERE id = ?
EdgeNext(es, edgeID) == es[edgeID].next

\* SELECT token0_id FROM nodes WHERE id = ?
Token0(nds, nodeID) == nds[nodeID].toks[1]

\* what GetTextByEdge returns, and the statements it has sent
EdgeText(text, space, err, stmts) ==
    [text |-> text, space |-> space, err |-> err, stmts |-> stmts]

\* fail: "none", or the statement that fails, "edge", "node" or "token";
\* a statement that finds no row returns sql.ErrNoRows
GetTextByEdge(edgeID, fail) ==
    IF fail = "edge" THEN EdgeText(<<>>, FALSE, ErrStorage, 1)
    ELSE IF edgeID \notin 1..Len(edges)
    THEN EdgeText(<<>>, FALSE, ErrNoRowsText, 1)
    ELSE LET nextNodeID == EdgeNext(edges, edgeID)
         IN IF fail = "node" THEN EdgeText(<<>>, FALSE, ErrStorage, 2)
            ELSE IF nextNodeID \notin 1..Len(nodes)
            THEN EdgeText(<<>>, FALSE, ErrNoRowsText, 2)
            ELSE LET tokenID == Token0(nodes, nextNodeID)
                 IN IF fail = "token" THEN EdgeText(<<>>, FALSE, ErrStorage, 3)
                    ELSE IF tokenID \notin 1..Len(tokens)
                    THEN EdgeText(<<>>, FALSE, ErrNoRowsText, 3)
                    ELSE EdgeText(tokens[tokenID].text,
                                  edges[edgeID].has_space, NoErr, 3)

(***************************************************************************)
(* Brain.Reply(seedText), after spec section 4.3, on the operations of the *)
(* store: the seed's tokens are looked up, FindEdgesForContext gives the   *)
(* node to start at, or else GetRandomToken and GetRandomNodeWithToken do; *)
(* SearchRandomWalk runs forward from it, and the texts of the edges       *)
(* walked are joined, a blank put in wherever the edge has has_space.      *)
(* Each call of the store is a step; an error of GetTextByEdge ends the    *)
(* reply with that error.                                                  *)
(***************************************************************************)
Hello == <<"h", "e", "l", "l", "o">>
World == <<"w", "o", "r", "l", "d">>

\* Learn("hello world"): the token world follows a blank
HelloWorld == <<[text |-> Hello, space |-> FALSE], [text |-> World, space |-> TRUE]>>

\* the seeds asked, as the tokens of the seed text
ReplySeeds == {<<Hello>>, <<World>>, <<>>, <<Hello, World>>, <<<<"a">>>>}

\* no node: the walk has no end node to reach
NoNode == 0

\* TokenID(t, false) of each token of the seed; unknown tokens are left out
RECURSIVE SeedIDs(_)
SeedIDs(seed) ==
    IF seed = <<>> THEN <<>>
    ELSE LET id == SelectToken(tokens, Head(seed))
         IN (IF id = 0 THEN <<>> ELSE <<id>>) \o SeedIDs(Tail(seed))

\* the text of one more edge joined to the reply, a blank before it where
\* the edge's has_space is set
ReplyText(piece, out) ==
    out \o (IF piece.space THEN <<" ">> ELSE <<>>) \o piece.text

Replying(at, seed, ids, token, start) ==
    [op |-> "reply", pc |-> at, seed |-> seed, ids |-> ids, token |-> token,
     start |-> start, rest |-> <<>>, out |-> <<>>, err |-> NoErr]

Replied(r, out, err) == [r EXCEPT !.pc = "done", !.out = out, !.err = err]

ReplyIdle == api = NoApi \/ (api.op = "reply" /\ api.pc = "done")

ReplyStart(seed) ==
    /\ ReplyIdle
    /\ Returned(learn)
    /\ api' = Replying("context", seed, SeedIDs(seed), 0, NoNode)
    /\ lookup' = NoLookup
    /\ walk' = NoWalk
    /\ UNCHANGED <<store, pc, loc, learn, view, handle, web>>

ReplyContext(fail) ==
    /\ api.op = "reply" /\ api.pc = "context"
    /\ lookup = NoLookup
    /\ FindEdgesForContext(api.ids, fail)

\* the later statements of the FindEdgesForContext call
ReplyContextStep ==
    /\ api.op = "reply" /\ api.pc = "context"
    /\ \/ \E fail \in {"none", "insert"}, unique \in BOOLEAN :
             FindNodeInsert(fail, unique)
       \/ \E fail \in {"none", "edges", "step"}, scan \in EdgePlans :
             FindEdgesFromNode(fail, scan)

\* the context gave edges: the walk starts at their node
ReplySeeded ==
    /\ api.op = "reply" /\ api.pc = "context"
    /\ lookup.op = "ContextEdges"
    /\ lookup.err = NoErr /\ lookup.edges # <<>>
    /\ api' = [api EXCEPT !.pc = "walk", !.start = lookup.node]
    /\ UNCHANGED <<store, pc, loc, learn, view, walk, lookup, handle, web>>

\* no context match: a token of the whole store seeds the walk
ReplyRandomToken(fail, offset, scan) ==
    /\ api.op = "reply" /\ api.pc = "context"
    /\ lookup.op = "ContextEdges"
    /\ ~(lookup.err = NoErr /\ lookup.edges # <<>>)
    /\ GetRandomToken(fail, offset, scan)
    /\ api' = IF ret'.err # NoErr THEN Replied(api, <<>>, ret'.err)
              ELSE [api EXCEPT !.pc = "node", !.token = ret'.id]
    /\ UNCHANGED <<learn, view, walk, lookup, handle, web>>

ReplyRandomNode(fail, offset, scan) ==
    /\ api.op = "reply" /\ api.pc = "node"
    /\ GetRandomNodeWithToken(api.token, fail, offset, scan)
    /\ api' = IF ret'.err # NoErr THEN Replied(api, <<>>, ret'.err)
              ELSE IF ret'.id = 0 THEN Replied(api, <<>>, NoErr)
              ELSE [api EXCEPT !.pc = "walk", !.start = ret'.id]
    /\ UNCHANGED <<learn, view, walk, lookup, handle, web>>

ReplyRandomTokenCall ==
    \E scan \in RowPlans,
       fail \in RandomFaults(TokensWithText(tokens)) :
        \E offset \in Offsets(Cardinality(TokensWithText(tokens))) :
            ReplyRandomToken(fail, offset, scan)

ReplyRandomNodeCall ==
    /\ api.op = "reply" /\ api.pc = "node"
    /\ \E scan \in RowPlans,
          fail \in RandomFaults(NodesWithToken0(nodes, api.token)) :
          \E offset \in Offsets(Cardinality(NodesWithToken0(nodes, api.token))) :
              ReplyRandomNode(fail, offset, scan)

ReplyWalk ==
    /\ api.op = "reply" /\ api.pc = "walk"
    /\ walk = NoWalk
    /\ SearchRandomWalk(api.start, NoNode, TRUE)

ReplyWalkStep(fail) ==
    /\ api.op = "reply" /\ api.pc = "walk"
    /\ WalkStep(fail)

ReplyReturn ==
    /\ api.op = "reply" /\ api.pc = "walk"
    /\ walk # NoWalk /\ walk.pc = "returned"
    /\ api' = IF walk.err # NoErr THEN Replied(api, <<>>, walk.err)
              ELSE IF walk.path = <<>> THEN Replied(api, <<>>, NoErr)
              ELSE [api EXCEPT !.pc = "text", !.rest = walk.path]
    /\ UNCHANGED <<store, pc, loc, learn, view, walk, lookup, handle, web>>

\* GetTextByEdge of the next edge of the path
ReplyEdgeText(fail) ==
    /\ api.op = "reply" /\ api.pc = "text"
    /\ LET piece == GetTextByEdge(Head(api.rest), fail)
           left == [api EXCEPT !.rest = Tail(@)]
       IN api' = IF piece.err # NoErr THEN Replied(left, <<>>, piece.err)
                 ELSE IF left.rest = <<>>
                 THEN Replied(left, ReplyText(piece, api.out), NoErr)
                 ELSE [left EXCEPT !.out = ReplyText(piece, api.out)]
    /\ UNCHANGED <<store, pc, loc, learn, view, walk, lookup, handle, web>>

InitReply == Opened(MaxLearnWrites) /\ order = 1

NextReply ==
    \/ ReplyIdle /\ LearnStart(HelloWorld)
    \/ LearnToken("none")
    \/ LearnNode("none")
    \/ LearnEdge("none")
    \/ LearnCommit("none")
    \/ \E seed \in ReplySeeds : ReplyStart(seed)
    \/ \E fail \in {"none", "select"} : ReplyContext(fail)
    \/ ReplyContextStep
    \/ ReplySeeded
    \/ ReplyRandomTokenCall
    \/ ReplyRandomNodeCall
    \/ ReplyWalk
    \/ \E fail \in {"none", "query"} : ReplyWalkStep(fail)
    \/ ReplyReturn
    \/ \E fail \in {"none", "edge", "node", "token"} : ReplyEdgeText(fail)

SpecReply == InitReply /\ [][NextReply]_vars

(***************************************************************************)
(* The tokenizers of package models: CobeTokenizer.Split (strategy A) and  *)
(* MegaHALTokenizer.Split (strategy B).  A text is a sequence of           *)
(* characters, a token a non-empty one.                                    *)
(***************************************************************************)
Tab == "\t"
\* the vertical tab U+000B, one character
VT == "\\v"

\* the characters of the texts split
TokenizerChars == {"a", "1", ",", ".", " ", Tab, VT}

TokenizerTexts == UNION {[1..n -> TokenizerChars] : n \in 0..MaxTextLen}

\* unicode.IsSpace, the characters strings.TrimSpace cuts
IsSpace(char) == char \in {" ", Tab, "\n", VT, "\f", "\r"}

\* the class \s of package regexp: [\t\n\f\r ]
IsRegexpSpace(char) == char \in {" ", Tab, "\n", "\f", "\r"}

\* strings.TrimSpace(text)
RECURSIVE TrimSpaces(_)
TrimSpaces(text) ==
    IF text = <<>> THEN text
    ELSE IF IsSpace(Head(text)) THEN TrimSpaces(Tail(text))
    ELSE IF IsSpace(text[Len(text)])
    THEN TrimSpaces(SubSeq(text, 1, Len(text) - 1))
    ELSE text

\* regexp.MustCompile(`\s+`).ReplaceAllString(text, " ")
RECURSIVE CollapseSpaces(_)
CollapseSpaces(text) ==
    IF text = <<>> THEN text
    ELSE IF ~IsRegexpSpace(Head(text))
    THEN <<Head(text)>> \o CollapseSpaces(Tail(text))
    ELSE IF Len(text) > 1 /\ IsRegexpSpace(text[2])
    THEN CollapseSpaces(Tail(text))
    ELSE <<" ">> \o CollapseSpaces(Tail(text))

IsPunctuationNever(char) == FALSE

\* strings.ContainsRune(",.!?;:", char)
IsPunctuation(char) == char \in {",", ".", "!", "?", ";", ":"}

\* if len(buffer) > 0 { tokens = append(tokens, string(buffer)) }
Flush(toks, buffer) == IF Len(buffer) > 0 THEN Append(toks, buffer) ELSE toks

\* the loop of CobeTokenizer.Split from character i on, and the last flush
RECURSIVE CobeLoop(_, _, _, _)
CobeLoop(text, i, toks, buffer) ==
    IF i > Len(text) THEN Flush(toks, buffer)
    ELSE IF text[i] = " "
    THEN CobeLoop(text, i + 1, Append(Flush(toks, buffer), <<" ">>), <<>>)
    ELSE IF IsPunctuation(text[i])
    THEN CobeLoop(text, i + 1, Append(Flush(toks, buffer), <<text[i]>>), <<>>)
    ELSE CobeLoop(text, i + 1, toks, Append(buffer, text[i]))

\* the text as the loop of CobeTokenizer.Split reads it
CobeNormalize(text) == CollapseSpaces(TrimSpaces(text))

CobeSplit(text) == CobeLoop(CobeNormalize(text), 1, <<>>, <<>>)

IsAlphanumericOrComma(char) == char \in {"a", "1", ","}

\* isAlphanumeric(char), for the characters of the model
IsAlphanumeric(char) == char \in {"a", "1"}

\* the loop of MegaHALTokenizer.Split from character i on, and the last flush
RECURSIVE MegaHALLoop(_, _, _, _, _)
MegaHALLoop(text, i, toks, buffer, inWord) ==
    IF i > Len(text) THEN Flush(toks, buffer)
    ELSE LET isAlphaNum == IsAlphanumeric(text[i])
             turn == isAlphaNum # inWord
             toks1 == IF turn THEN Flush(toks, buffer) ELSE toks
             buffer1 == IF turn THEN <<>> ELSE buffer
         IN IF text[i] = " "
            THEN MegaHALLoop(text, i + 1, Append(Flush(toks1, buffer1), <<" ">>),
                             <<>>, FALSE)
            ELSE MegaHALLoop(text, i + 1, toks1, Append(buffer1, text[i]),
                             isAlphaNum)

MegaHALSplit(text) == MegaHALLoop(text, 1, <<>>, <<>>, FALSE)

Split(strategy, text) ==
    [op |-> "split", strategy |-> strategy, text |-> text,
     tokens |-> IF strategy = "A" THEN CobeSplit(text) ELSE MegaHALSplit(text)]

\* one text is split in a run
SplitCall(strategy) ==
    /\ api = NoApi
    /\ \E text \in TokenizerTexts : api' = Split(strategy, text)
    /\ UNCHANGED <<store, pc, loc, learn, view, walk, lookup, handle, web>>

InitSplit == Opened(0)

NextSplit ==
    \/ SplitCall("A")
    \/ SplitCall("B")

SpecSplit == InitSplit /\ [][NextSplit]_vars

(***************************************************************************)
(* SearchRandomWalk on a node with more edges than one sample holds: node  *)
(* 1 has its two self-loops and four edges to the nodes 2 and 3.           *)
(***************************************************************************)
\* the edges a run of SpecSample adds, in this order
SampleEdges ==
    <<<<1, 1, TRUE>>, <<1, 1, FALSE>>, <<1, 2, TRUE>>, <<1, 2, FALSE>>,
      <<1, 3, TRUE>>, <<1, 3, FALSE>>, <<2, 1, TRUE>>>>

\* the end nodes asked: none, and the nodes 2 and 3
SampleEnds == {0, 2, 3}

\* the store is filled before it is walked
SampleAddEdge ==
    /\ walk = NoWalk
    /\ Len(edges) < Len(SampleEdges)
    /\ LET t == SampleEdges[Len(edges) + 1]
       IN AddEdge(t[1], t[2], t[3], "none")
    /\ UNCHANGED client

InitSample == Opened(MaxSampleEdges)

NextSample ==
    \/ SampleAddEdge
    \/ \E s \in WalkIds, e \in SampleEnds, d \in BOOLEAN :
          SearchRandomWalk(s, e, d)
    \/ \E fail \in {"none", "query"} : WalkStep(fail)

SpecSample == InitSample /\ [][NextSample]_vars

(***************************************************************************)
(* The Neovim plugin (lua/cobutler): init.lua with setup, enable, disable  *)
(* and toggle; suggestion.lua with start, stop, the debounced request and  *)
(* the display of a completion; util.debounce; api.get_completion.         *)
(* A callback given to vim.schedule waits in editor.queue and runs on the  *)
(* main loop, first in first out, between the user's commands and keys.    *)
(* A timer is named by the number of the debounced call that created it.   *)
(***************************************************************************)
\* suggestion.start(): setup_autocmds(), which also sets the keymaps of
\* accept and dismiss
Start(e) == [e EXCEPT !.autocmds = TRUE, !.keymaps = TRUE]

\* nvim_buf_is_valid of the buffer request id was made in: the buffers of
\* the requests up to e.wiped have been deleted since
Valid(e, id) == id > e.wiped

\* clear_suggestion(): the extmark is deleted and forgotten only if the
\* buffer of the suggestion is still valid; current_buffer is set and
\* cleared together with current_suggestion
ClearSuggestion(e) ==
    [e EXCEPT !.suggestion = 0,
              !.extmark = IF e.extmark # 0 /\ e.suggestion # 0
                             /\ Valid(e, e.suggestion)
                          THEN 0 ELSE @]

\* suggestion.stop(): clear_suggestion(), nvim_clear_autocmds; the keymaps
\* stay
Stop(e) == [ClearSuggestion(e) EXCEPT !.autocmds = FALSE]

\* the plugin and the engine together, as the functions of init.lua see them
Both(p, e) == [plugin |-> p, editor |-> e]

EnabledNever(p) == FALSE

\* if enabled then return end
EnabledAlready(p) == p.enabled

\* M.enable() on a plugin that is initialized
EnableInitialized(st) ==
    IF EnabledAlready(st.plugin) THEN st
    ELSE Both([st.plugin EXCEPT !.enabled = TRUE, !.engine = Append(@, "start")],
              Start(st.editor))

\* M.setup(opts), auto being config.options.auto_enable
Setup(st, auto) ==
    IF st.plugin.initialized THEN st
    ELSE LET ready == Both([st.plugin EXCEPT !.initialized = TRUE], st.editor)
         IN IF auto THEN EnableInitialized(ready) ELSE ready

\* M.enable(): M.setup() takes the defaults, auto_enable = true
Enable(st) ==
    EnableInitialized(IF ~st.plugin.initialized THEN Setup(st, TRUE) ELSE st)

\* M.disable()
Disable(st) ==
    IF ~st.plugin.enabled THEN st
    ELSE Both([st.plugin EXCEPT !.enabled = FALSE, !.engine = Append(@, "stop")],
              Stop(st.editor))

\* M.toggle()
Toggle(st) == IF st.plugin.enabled THEN Disable(st) ELSE Enable(st)

\* commands given so far are not counted in the state; the calls of the
\* engine are, and a run is cut after MaxCommands of them
Command(name, st) ==
    /\ Len(plugin.engine) < MaxCommands
    /\ plugin' = [st.plugin EXCEPT !.last = name,
                                   !.fresh = ~plugin.initialized]
    /\ editor' = st.editor
    /\ UNCHANGED <<store, pc, loc, learn, view, walk, lookup, api, info,
                   closed, web>>

SetupCommand == \E auto \in BOOLEAN : Command("setup", Setup(Both(plugin, editor), auto))

EnableCommand == Command("enable", Enable(Both(plugin, editor)))

DisableCommand == Command("disable", Disable(Both(plugin, editor)))

ToggleCommand == Command("toggle", Toggle(Both(plugin, editor)))

\* timer:stop() on the timer the closure holds; a timer that has fired stays
\* fired, its callback is scheduled already
StopTimer(e) ==
    IF e.timer # 0 /\ e.timers[e.timer] = "armed"
    THEN [e EXCEPT !.timers[e.timer] = "stopped"]
    ELSE e

\* the function util.debounce returns: the timer held is stopped and
\* dropped, a new timer is started
Debounced(e) ==
    LET e1 == StopTimer(e)
    IN [e1 EXCEPT !.timers = Append(@, "armed"), !.timer = Len(e1.timers) + 1]

\* the scheduled callback of a timer: if timer then timer:stop();
\* timer:close(); timer = nil end
CloseTimer(e) ==
    IF e.timer # 0
    THEN [e EXCEPT !.timers[e.timer] = "closed", !.timer = 0]
    ELSE e

Scheduled(kind, id, reply) == [kind |-> kind, id |-> id, reply |-> reply]

\* request_suggestion(): the buffer is not processed and the suggestion is
\* cleared, or the completion is requested (api.get_completion schedules
\* the POST)
RequestSuggestion(e, id, process) ==
    IF ~process THEN ClearSuggestion(e)
    ELSE [e EXCEPT !.queue = Append(@, Scheduled("post", id, "none"))]

\* display_suggestion(bufnr, line, suggestion_text): the suggestion is
\* stored before nvim_buf_set_extmark, which raises when the buffer of the
\* request is no longer valid or its line no longer exists (inRange false)
DisplaySuggestion(e, id, reply, inRange) ==
    IF reply # "text" THEN e
    ELSE LET stored == [ClearSuggestion(e) EXCEPT !.suggestion = id]
         IN IF Valid(e, id) /\ inRange THEN [stored EXCEPT !.extmark = id]
            ELSE stored

\* M.has_suggestion()
HasSuggestion(e) == e.suggestion # 0 /\ Valid(e, e.suggestion)

\* M.accept_suggestion(): get_context reads the buffer at the line of the
\* suggestion with strict indexing and raises when that line no longer
\* exists (inRange false), before anything is cleared; otherwise the
\* suggestion is cleared and its insertion is scheduled
AcceptSuggestion(e, inRange) ==
    IF ~HasSuggestion(e) THEN e
    ELSE IF ~inRange THEN e
    ELSE [ClearSuggestion(e) EXCEPT
             !.queue = Append(@, Scheduled("insert", e.suggestion, "none"))]

\* the scheduled callback of accept_suggestion: nothing when the buffer is
\* no longer valid.  reached says how far the callback gets: "raised",
\* nvim_buf_set_lines raises (the new line holds a line break, the buffer
\* cannot be modified) and nothing is written; "written", the text is
\* inserted and the line after raises (the length of a suggestion that is
\* not a string, nvim_win_set_cursor), so api.learn is not called;
\* "learned", the text is inserted and api.learn schedules its POST
InsertSuggestion(e, id, reached) ==
    IF ~Valid(e, id) THEN e
    ELSE IF reached = "raised" THEN e
    ELSE IF reached = "written" THEN [e EXCEPT !.inserted = Append(@, id)]
    ELSE [e EXCEPT !.inserted = Append(@, id),
                   !.queue = Append(@, Scheduled("learn", id, "none"))]

\* the buffer edited is deleted, and with it the buffers of earlier
\* requests: the user goes on in another buffer
BufferDeleted ==
    /\ editor.invoked # <<>>
    /\ editor.wiped < editor.invoked[Len(editor.invoked)]
    /\ editor' = [editor EXCEPT !.wiped = editor.invoked[Len(editor.invoked)]]
    /\ UNCHANGED <<store, pc, loc, learn, view, walk, lookup, api, info,
                   closed, plugin, web>>

\* the accept key: M.accept_suggestion() if M.has_suggestion(), else the
\* key is passed through
Accept ==
    /\ editor.keymaps
    /\ \E inRange \in BOOLEAN :
          editor' = IF HasSuggestion(editor)
                    THEN AcceptSuggestion(editor, inRange) ELSE editor
    /\ UNCHANGED <<store, pc, loc, learn, view, walk, lookup, api, info,
                   closed, plugin, web>>

\* the dismiss key
Dismiss ==
    /\ editor.keymaps
    /\ editor' = IF editor.suggestion # 0 THEN ClearSuggestion(editor) ELSE editor
    /\ UNCHANGED <<store, pc, loc, learn, view, walk, lookup, api, info,
                   closed, plugin, web>>

\* the autocommand of ModeChanged to normal mode
ModeChanged ==
    /\ editor.autocmds
    /\ editor' = ClearSuggestion(editor)
    /\ UNCHANGED <<store, pc, loc, learn, view, walk, lookup, api, info,
                   closed, plugin, web>>

\* the autocommand of CursorMovedI and TextChangedI
TextChangedI ==
    /\ editor.autocmds
    /\ Len(editor.timers) < MaxDebounceCalls
    /\ editor' = Debounced(editor)
    /\ UNCHANGED <<store, pc, loc, learn, view, walk, lookup, api, info,
                   closed, plugin, web>>

\* the delay of a timer elapses: vim.schedule_wrap schedules its callback
TimerFires ==
    /\ \E id \in 1..Len(editor.timers) :
          /\ editor.timers[id] = "armed"
          /\ editor' = [editor EXCEPT
                 !.timers[id] = "fired",
                 !.queue = Append(@, Scheduled("timer", id, "none"))]
    /\ UNCHANGED <<store, pc, loc, learn, view, walk, lookup, api, info,
                   closed, plugin, web>>

\* the main loop runs the first scheduled callback.  The callback of
\* api.get_completion ends without scheduling a reply when json_decode
\* raises on the body received (reply "raise")
RunScheduled(kind) ==
    /\ editor.queue # <<>>
    /\ Head(editor.queue).kind = kind
    /\ LET job == Head(editor.queue)
           e == [editor EXCEPT !.queue = Tail(@)]
       IN CASE kind = "timer" ->
                 \E process \in BOOLEAN :
                    editor' = RequestSuggestion(
                                 [CloseTimer(e) EXCEPT !.invoked = Append(@, job.id)],
                                 job.id, process)
            [] kind = "post" ->
                 \E reply \in {"error", "empty", "text", "raise"} :
                    editor' = IF reply = "raise" THEN e
                              ELSE [e EXCEPT !.queue =
                                 Append(@, Scheduled("reply", job.id, reply))]
            [] kind = "reply" ->
                 \E inRange \in BOOLEAN :
                    editor' = DisplaySuggestion(e, job.id, job.reply, inRange)
            [] kind = "insert" ->
                 \E reached \in {"raised", "written", "learned"} :
                    editor' = InsertSuggestion(e, job.id, reached)
            [] kind = "learn" ->
                 \* the POST of api.learn; a failure is notified only
                 editor' = e
    /\ UNCHANGED <<store, pc, loc, learn, view, walk, lookup, api, info,
                   closed, plugin, web>>

InitPlugin == Opened(0)

NextPlugin ==
    \/ SetupCommand
    \/ EnableCommand
    \/ DisableCommand
    \/ ToggleCommand
    \/ TextChangedI
    \/ ModeChanged
    \/ Dismiss
    \/ Accept
    \/ BufferDeleted
    \/ TimerFires
    \/ RunScheduled("timer")
    \/ RunScheduled("post")
    \/ RunScheduled("reply")
    \/ RunScheduled("insert")
    \/ RunScheduled("learn")

SpecPlugin == InitPlugin /\ [][NextPlugin]_vars

(***************************************************************************)
(* Properties of the store used by one caller at a time.                   *)
(***************************************************************************)
EdgeRows(t) == {i \in 1..Len(edges) : EdgeMatches(edges[i], t[1], t[2], t[3])}

TokenRows(text) == {i \in 1..Len(tokens) : tokens[i].text = text}

\* C1: after any sequence of AddEdge calls, each (prevNode, nextNode,
\* hasSpace) has at most one edge, and its count is the number of AddEdge
\* calls made with that triple (no edge when there was none).
C1_EdgeAccumulation ==
    \A t \in Triples :
        /\ Cardinality(EdgeRows(t)) <= 1
        /\ (calls[t] = 0) = (EdgeRows(t) = {})
        /\ \A i \in EdgeRows(t) : edges[i].count = calls[t]

\* three calls with one triple and one with the triple that differs in
\* hasSpace only: two edges, of counts 3 and 1
C1_Witness ==
    \E p \in NodeIds, n \in NodeIds :
        /\ calls[<<p, n, TRUE>>] = 3
        /\ calls[<<p, n, FALSE>>] = 1
        /\ Len(edges) = 2

\* C3: TokenID(t, true) called twice in a row returns the same id both
\* times, and the store then holds exactly one token whose text is t.
C3_TokenIdempotent ==
    (ret.op = "TokenID" /\ ret.err = NoErr /\ prev # 0) =>
        /\ ret.id = prev
        /\ Cardinality(TokenRows(ret.arg[1])) = 1

\* the second of two such calls has returned, for a token that is not the
\* first of the table
C3_Witness ==
    /\ ret.op = "TokenID" /\ ret.err = NoErr /\ ret.arg[2]
    /\ prev = 2 /\ ret.id = 2
    /\ Len(tokens) = 2

\* C7: NodeID given a tuple whose length is not the order returns
\* InvalidOrder and no id, sends no statement and leaves the nodes table as
\* it was; no stored node has a tuple of another length than the order.
C7_InvalidOrder ==
    /\ [](/\ (ret.op = "NodeID" /\ ret.arg # order) =>
               (ret.err = ErrInvalidOrder /\ ret.id = 0 /\ ret.stmts = 0)
          /\ \A i \in 1..Len(nodes) : Len(nodes[i].toks) = order)
    /\ [][(ret'.op = "NodeID" /\ ret'.arg # order) => nodes' = nodes]_vars

\* a longer tuple was refused by a store that holds nodes
C7_Witness ==
    /\ ret.op = "NodeID" /\ ret.err = ErrInvalidOrder
    /\ ret.arg > order
    /\ Len(nodes) = 2

AppendOnly ==
    /\ Len(tokens') >= Len(tokens)
    /\ \A i \in 1..Len(tokens) : tokens'[i] = tokens[i]
    /\ Len(nodes') >= Len(nodes)
    /\ \A i \in 1..Len(nodes) :
          /\ nodes'[i].toks = nodes[i].toks
          /\ nodes'[i].count >= nodes[i].count
    /\ Len(edges') >= Len(edges)
    /\ \A i \in 1..Len(edges) :
          /\ edges'[i].prev = edges[i].prev
          /\ edges'[i].next = edges[i].next
          /\ edges'[i].has_space = edges[i].has_space
          /\ edges'[i].count >= edges[i].count

\* C9: no step of the store deletes a token, node or edge, changes a
\* token's text or is_word, changes a node's tuple or an edge's endpoints,
\* or lowers a node's or an edge's count.
C9_AppendOnly == [][AppendOnly]_vars

\* an edge has been reinforced
C9_Witness == \E i \in 1..Len(edges) : edges[i].count = 2

\* C10: every NodeID call that resolves a tuple, the creating one and each
\* later one, raises that node's count by one.
C10_NodeCountCounts ==
    [][(ret'.op = "NodeID" /\ ret'.err = NoErr) =>
         nodes'[ret'.id].count =
            (IF ret'.id <= Len(nodes) THEN nodes[ret'.id].count ELSE 0) + 1]_vars

(***************************************************************************)
(* Properties of the store called by several goroutines at once.           *)
(***************************************************************************)
AllIdle == \A w \in Workers : pc[w] = "idle"

\* C2: when AddEdge calls for one triple interleave statement by
\* statement, no increment is lost and no edge is duplicated: once the
\* calls have completed there is one edge for the triple and its count is
\* the number of calls.
C2_NoLostIncrement ==
    AllIdle =>
        \A t \in Triples :
            /\ Cardinality(EdgeRows(t)) <= 1
            /\ (calls[t] = 0) = (EdgeRows(t) = {})
            /\ \A i \in EdgeRows(t) : edges[i].count = calls[t]

\* C4: no two tokens have the same text and no two nodes the same tuple, in
\* every state, also while TokenID or NodeID calls for one new text or
\* tuple are between their SELECT and their INSERT.
C4_UniqueUnderRace ==
    /\ \A i, j \in 1..Len(tokens) : tokens[i].text = tokens[j].text => i = j
    /\ \A i, j \in 1..Len(nodes) : nodes[i].toks = nodes[j].toks => i = j

(***************************************************************************)
(* Properties of Learn.                                                    *)
(***************************************************************************)
\* C5: what a read-only operation reads while a Learn call runs is the
\* tables as they were before the call or as they are after it, never a
\* part of the call's writes.
C5_ReadersSeeAllOrNothing ==
    (learn.pc = "done" /\ view # NoView) =>
        (view = learn.pre \/ view = Snapshot)

\* C6: when a Learn call fails, the tokens, nodes and edges are what they
\* were before the call.
C6_FailedLearnLeavesNothing ==
    learn.pc = "failed" => Snapshot = learn.pre

(***************************************************************************)
(* Properties of SearchRandomWalk.                                         *)
(***************************************************************************)
\* C8: whatever the start node, the end node, the direction and the edges,
\* cycles and self-loops included, RandomWalk returns, and the path it has
\* built holds at most 15 edges.
C8_WalkTerminates ==
    /\ [](walk.pc # "idle" => Len(walk.path) <= MaxLength)
    /\ (walk.pc = "loop" ~> walk.pc = "returned")

\* a walk round the cycle has returned with a path of 15 edges
C8_Witness ==
    /\ walk.pc = "returned"
    /\ walk.err = NoErr
    /\ Len(walk.path) = MaxLength
    /\ \E i \in 1..Len(walk.path) - 2 : walk.path[i] = walk.path[i + 2]

(***************************************************************************)
(* Properties of FindEdgesForContext.                                      *)
(***************************************************************************)
\* the two errors FindEdgesForContext itself makes: the store's NoMatch
NoMatchErrs == {ErrTooShort, ErrNoContext}

\* a step of a call: a statement sent, or the return before any
ContextStep == lookup' # lookup /\ lookup' # NoLookup

\* the step at which a call returns
ContextCalled == ContextStep /\ lookup'.op = "ContextEdges"

\* a node tuple matches a context when it is the context's last `order`
\* tokens, or, for a context shorter than the order, begins with the context
TrailingMatch(toks, ctx, ord) ==
    IF Len(ctx) >= ord
    THEN toks = SubSeq(ctx, Len(ctx) - ord + 1, Len(ctx))
    ELSE SubSeq(toks, 1, Len(ctx)) = ctx

\* C11: a ContextEdges call leaves the tokens, nodes and edges as they
\* were, whatever the context, a context of `order` ids never learned
\* included.
C11_ContextEdgesReadOnly ==
    [][ContextStep => UNCHANGED <<tokens, nodes, edges>>]_vars

\* C12: when no stored node matches the context, ContextEdges fails with
\* NoMatch; it returns no edge list, empty or not.  The nodes stored are
\* those the table held when the call looked for its node.
C12_NoMatchWithoutNode ==
    [][(/\ ContextCalled
        /\ \A i \in 1..lookup'.pre :
              ~TrailingMatch(nodes[i].toks, lookup'.ctx, order))
       => lookup'.err \in NoMatchErrs]_vars

\* C13: for every order and content, ContextEdges with fewer than 2 token
\* ids fails with NoMatch, sends no statement and changes nothing.
C13_ShortContext ==
    /\ []((lookup.op = "ContextEdges" /\ Len(lookup.ctx) < 2) =>
            /\ lookup.err \in NoMatchErrs
            /\ lookup.stmts = 0
            /\ lookup.edges = <<>>)
    /\ [][(ContextCalled /\ Len(lookup'.ctx) < 2) =>
            UNCHANGED <<tokens, nodes, edges, inTx, dirty, ret>>]_vars

\* order 1: the one token given is the tuple of a stored node, and the call
\* still failed as too short
C13_Witness ==
    /\ order = 1
    /\ lookup.op = "ContextEdges"
    /\ Len(lookup.ctx) = 1
    /\ SelectNode(nodes, lookup.ctx) # 0
    /\ lookup.err = ErrTooShort

\* C14: a storage error met while looking the context's node up is
\* returned as a storage error, never as NoMatch.
C14_StorageErrorKept ==
    (lookup.op = "ContextEdges" /\ lookup.raised = ErrStorage) =>
        (lookup.err = ErrStorage /\ lookup.err \notin NoMatchErrs)

\* C16: for a context whose length is not the order, the node selected
\* matches the context's trailing tokens.
C16_TrailingTokensMatch ==
    (/\ lookup.op = "ContextEdges"
     /\ lookup.err = NoErr
     /\ Len(lookup.ctx) # order) =>
        TrailingMatch(nodes[lookup.node].toks, lookup.ctx, order)

Returned20(r) == {r[k] : k \in 1..Len(r)}

\* C15: a successful ContextEdges returns at most 20 edge ids, each of an
\* edge leaving the located node, none twice, in non-increasing order of
\* count; when more than 20 edges leave the node, no edge left out has a
\* higher count than one returned.
C15_TopEdgesByCount ==
    (lookup.op = "ContextEdges" /\ lookup.err = NoErr) =>
        LET r == lookup.edges
            out == OutEdges(edges, lookup.node)
        IN /\ Len(r) <= EdgeLimit
           /\ Returned20(r) \subseteq out
           /\ Cardinality(Returned20(r)) = Len(r)
           /\ \A k \in 1..Len(r) - 1 : edges[r[k]].count >= edges[r[k + 1]].count
           /\ Cardinality(out) > EdgeLimit =>
                 \A o \in out \ Returned20(r) : \A k \in 1..Len(r) :
                     edges[o].count <= edges[r[k]].count

\* more than 20 edges leave the node: 20 were returned, of different
\* counts, and one left out has the count of the last returned
C15_Witness ==
    /\ lookup.op = "ContextEdges" /\ lookup.err = NoErr
    /\ Len(lookup.edges) = EdgeLimit
    /\ Cardinality(OutEdges(edges, lookup.node)) > EdgeLimit
    /\ edges[lookup.edges[1]].count > edges[lookup.edges[EdgeLimit]].count
    /\ \E o \in OutEdges(edges, lookup.node) \ Returned20(lookup.edges) :
          edges[o].count = edges[lookup.edges[EdgeLimit]].count

\* the endpoint of an edge the walk leaves it from
SourceID(id, dir) == IF dir THEN edges[id].prev ELSE edges[id].next

\* the node the walk stood on after k edges of its path
NodeAfter(w, k) == IF k = 0 THEN w.start ELSE TargetID(w.path[k], w.dir)

\* C17: RandomWalk appends no edge once the current node is endNodeID: a
\* walk whose start is its end has an empty path, and the end is never a
\* node in the middle of the path.
C17_NeverLeavesEnd ==
    (walk.pc # "idle" /\ walk.err = NoErr) =>
        \A k \in 0..Len(walk.path) - 1 : NodeAfter(walk, k) # walk.endID

\* no edge but self-loops is incident to the walk's current node
DeadEnd(w) == SkipSelfLoops(Incident(w.cur, w.dir), w.cur, w.dir) = {}

\* C18: the path of RandomWalk is a connected walk from the start: each
\* edge is incident to the node that was current when it was chosen, is no
\* self-loop, and leads to the next current node; at a dead end the walk
\* returns the path it has, without error.
C18_ConnectedWalk ==
    /\ []((walk.pc # "idle" /\ walk.err = NoErr) =>
            /\ \A k \in 1..Len(walk.path) :
                  /\ SourceID(walk.path[k], walk.dir) = NodeAfter(walk, k - 1)
                  /\ TargetID(walk.path[k], walk.dir) # NodeAfter(walk, k - 1)
            /\ walk.cur = NodeAfter(walk, Len(walk.path)))
    /\ [][(walk.pc = "loop" /\ DeadEnd(walk) /\ walk' # walk) =>
            /\ walk'.pc = "returned"
            /\ walk'.err = NoErr => walk'.path = walk.path
            /\ walk'.err # NoErr => walk'.err = ErrStorage]_vars

\* a walk from a node with a self-loop took an edge and returned at a dead
\* end, short of its end node and of 15 edges
C18_Witness ==
    /\ walk.pc = "returned" /\ walk.err = NoErr
    /\ Len(walk.path) >= 1
    /\ walk.cur # walk.endID
    /\ walk.i < MaxLength
    /\ DeadEnd(walk)
    /\ \E id \in Incident(walk.start, walk.dir) :
          TargetID(id, walk.dir) = walk.start

(***************************************************************************)
(* Properties of selectReplyByPrecision.                                   *)
(***************************************************************************)
Selected == api.op = "selected" /\ Len(api.replies) >= 2

\* the candidates of the fewest words
Fewest(replies) ==
    {i \in 1..Len(replies) :
        \A j \in 1..Len(replies) : WordCount(replies[i]) <= WordCount(replies[j])}

\* C19: for precision > 0.9 and two candidates or more, the reply is the
\* candidate of the fewest words, the earliest generated among those tied.
C19_FewestWordsFirst ==
    (Selected /\ api.precision > HighPrecision) =>
        \E i \in Fewest(api.replies) :
            /\ \A j \in Fewest(api.replies) : i <= j
            /\ api.reply = api.replies[i]

\* three candidates or more, the first not the shortest, two different
\* ones tied for the fewest words: the earlier of the two is the reply
C19_Witness ==
    /\ Selected /\ api.precision = 91
    /\ 1 \notin Fewest(api.replies)
    /\ \E i, j \in Fewest(api.replies) :
          /\ i < j
          /\ api.replies[i] # api.replies[j]
          /\ api.reply = api.replies[i]

\* the element at index m, counted from 0, of the word counts in ascending
\* order: fewer than m + 1 counts are below it, m + 1 or more not above it
CountAt(replies, m) ==
    CHOOSE v \in {WordCount(replies[i]) : i \in 1..Len(replies)} :
        /\ Cardinality({i \in 1..Len(replies) : WordCount(replies[i]) < v}) <= m
        /\ Cardinality({i \in 1..Len(replies) : WordCount(replies[i]) <= v}) > m

\* C20: for 0.7 < precision <= 0.9 and k >= 2 candidates, the reply is a
\* candidate whose word count is the element at index floor(k/2) of the
\* candidates' word counts in ascending order.
C20_MedianWordCount ==
    (Selected /\ api.precision > MidPrecision /\ api.precision <= HighPrecision) =>
        /\ \E i \in 1..Len(api.replies) : api.reply = api.replies[i]
        /\ WordCount(api.reply) = CountAt(api.replies, Len(api.replies) \div 2)

\* four candidates in descending order of word count, two of them tied: the
\* reply is not the candidate at index 2 of the input
C20_Witness ==
    /\ Selected /\ api.precision = 90
    /\ Len(api.replies) = 4
    /\ \A i \in 1..3 : WordCount(api.replies[i]) >= WordCount(api.replies[i + 1])
    /\ \E i \in 1..3 : WordCount(api.replies[i]) = WordCount(api.replies[i + 1])
    /\ WordCount(api.reply) # WordCount(api.replies[3])

\* C22: whatever the precision, the selector returns the empty string for
\* no candidates, the candidate itself for one, and otherwise one of the
\* candidates; never a text that is none of them.
C22_ReplyIsCandidate ==
    api.op = "selected" =>
        /\ Len(api.replies) = 0 => api.reply = <<>>
        /\ Len(api.replies) = 1 => api.reply = api.replies[1]
        /\ Len(api.replies) >= 1 =>
              \E i \in 1..Len(api.replies) : api.reply = api.replies[i]

\* precision 0.5, three candidates: the reply is the last one, which is
\* neither the first nor of the fewest words nor of the median word count
C22_Witness ==
    /\ api.op = "selected" /\ api.precision = 50
    /\ Len(api.replies) = 3
    /\ api.reply = api.replies[3]
    /\ api.reply # api.replies[1] /\ api.reply # api.replies[2]
    /\ 3 \notin Fewest(api.replies)
    /\ WordCount(api.reply) # CountAt(api.replies, 1)

(***************************************************************************)
(* Properties of the HTTP handlers.                                        *)
(***************************************************************************)
Answered(w, kind) == http[w].pc = "done" /\ http[w].kind = kind

Accepted(w) == http[w].method = "POST" /\ http[w].body = "json"

BrainCalls(w, op) == {k \in 1..Len(http[w].trace) : http[w].trace[k].op = op}

\* the number of candidates the spec gives for the precision asked
Candidates21(asked) ==
    LET precision == IF asked <= 0 THEN 70 ELSE IF asked > 100 THEN 100 ELSE asked
    IN IF precision > 90 THEN 5 ELSE IF precision > 70 THEN 3 ELSE 1

\* C21: a Predict request that succeeds has called Brain.Reply 5 times for
\* a precision above 0.9, 3 times for one above 0.7 and up to 0.9, once
\* otherwise, a precision of 0 or less counting as 0.7 and one above 1 as
\* 1.0; the reply of a single call comes back unchanged without max_words.
C21_ReplyCalls ==
    \A w \in Workers :
        (Answered(w, "predict") /\ http[w].status = StatusOK) =>
            /\ Cardinality(BrainCalls(w, "Reply")) = Candidates21(http[w].precision)
            /\ (Candidates21(http[w].precision) = 1 /\ http[w].max_words <= 0) =>
                  http[w].reply = http[w].replies[1]

\* a request of precision 1.5 was answered after 5 Reply calls
C21_Witness ==
    \E w \in Workers :
        /\ Answered(w, "predict") /\ http[w].status = StatusOK
        /\ http[w].precision = 150
        /\ Cardinality(BrainCalls(w, "Reply")) = 5
        /\ Len(http[w].replies) = 5

\* C23: with max_words = N > 0 the reply of Predict is the first N words
\* of the reply before truncation, in their order; a reply of N words or
\* fewer, and any reply when N <= 0, is returned unchanged.
C23_MaxWords ==
    \A w \in Workers :
        (Answered(w, "predict") /\ http[w].status = StatusOK) =>
            LET N == http[w].max_words
                words == Fields(http[w].chosen)
            IN IF N > 0 /\ Len(words) > N
               THEN /\ Len(Fields(http[w].reply)) = N
                    /\ \A k \in 1..N : Fields(http[w].reply)[k] = words[k]
               ELSE http[w].reply = http[w].chosen

\* a reply of three words came back as its first two
C23_Witness ==
    \E w \in Workers :
        /\ Answered(w, "predict") /\ http[w].status = StatusOK
        /\ http[w].max_words = 2
        /\ http[w].chosen = <<"a", " ", "b", " ", "c">>
        /\ http[w].reply = <<"a", " ", "b">>

\* C24: without overlap every Reply call of a Predict request runs under
\* the cache setting of that request's use_cache flag.
C24_OwnCacheSetting ==
    \A w \in Workers :
        (http[w].pc # "idle" /\ http[w].kind = "predict" /\ ~http[w].overlap) =>
            \A k \in BrainCalls(w, "Reply") :
                http[w].trace[k].cache = http[w].use_cache

\* two requests overlap and a Reply call of one ran under the setting of
\* the other, which differs from its own
C24_Witness ==
    \E w, v \in Workers :
        /\ w # v
        /\ http[w].pc # "idle" /\ http[v].pc # "idle"
        /\ http[w].kind = "predict" /\ http[v].kind = "predict"
        /\ http[w].overlap /\ http[v].overlap
        /\ http[w].use_cache # http[v].use_cache
        /\ \E k \in BrainCalls(w, "Reply") :
              http[w].trace[k].cache = http[v].use_cache

\* C25: the Learn handler calls Brain.Learn once, with the cleaned text,
\* and calls RememberCompletion(context, text) after it exactly when the
\* context is not empty and Learn returned no error.
C25_LearnThenRemember ==
    \A w \in Workers :
        (Answered(w, "learn") /\ Accepted(w)) =>
            LET t == http[w].trace
                cleaned == TrimSpace(http[w].text)
            IN /\ BrainCalls(w, "Learn") = {1}
               /\ t[1].arg = cleaned
               /\ BrainCalls(w, "RememberCompletion") \subseteq {2}
               /\ (BrainCalls(w, "RememberCompletion") = {2}) =
                     (Len(http[w].context) > 0 /\ t[1].ok)
               /\ \A k \in BrainCalls(w, "RememberCompletion") :
                     t[k].arg = <<http[w].context, cleaned>>

\* C26: Predict and Learn answer 405 to a method other than POST and 400
\* to a malformed body, without any Brain call; 500 without a reply when a
\* Brain.Reply or Brain.Learn call fails, which is then the last Brain
\* call; and 200 otherwise.
C26_StatusCodes ==
    \A w \in Workers :
        http[w].pc = "done" =>
            LET t == http[w].trace
                failed == {k \in 1..Len(t) : ~t[k].ok}
            IN IF http[w].method # "POST"
               THEN http[w].status = 405 /\ t = <<>> /\ http[w].reply = NoPayload
               ELSE IF http[w].body # "json"
               THEN http[w].status = 400 /\ t = <<>> /\ http[w].reply = NoPayload
               ELSE IF failed # {}
               THEN /\ http[w].status = 500
                    /\ http[w].reply = NoPayload
                    /\ failed = {Len(t)}
               ELSE http[w].status = 200

\* the third Brain.Reply call of a Predict request failed: 500 and no
\* fourth call
C26_Witness ==
    \E w \in Workers :
        /\ Answered(w, "predict") /\ http[w].status = 500
        /\ Cardinality(BrainCalls(w, "Reply")) = 3
        /\ ~http[w].trace[Len(http[w].trace)].ok
        /\ NumResponses(ClampPrecision(http[w].precision)) = 5

(***************************************************************************)
(* Properties of GetRandomToken and GetRandomNodeWithToken.                *)
(***************************************************************************)
\* the stored tokens of non-empty text
WithText == {i \in 1..Len(tokens) : tokens[i].text # <<>>}

\* the stored nodes whose first slot is tokenID
Headed(tokenID) == {i \in 1..Len(nodes) : nodes[i].toks[1] = tokenID}

\* C29: RandomToken fails with EmptyStore exactly when no stored token has a
\* non-empty text, a store of the empty-text token alone included; else it
\* returns the id of a stored token of non-empty text, and each such token
\* can be returned.  A call whose statement the storage fails is set aside.
C29_RandomToken ==
    /\ \A scan \in RowPlans :
          Drawn(TokensWithText(tokens),
                TokenMetBefore(tokens, scan)) = WithText
    /\ ret.op = "RandomToken" /\ ret.err # ErrStorage =>
         /\ ret.err = ErrEmptyStore <=> WithText = {}
         /\ ret.err # ErrEmptyStore => ret.err = NoErr /\ ret.id \in WithText

C29_Witness ==
    /\ ret.op = "RandomToken"
    /\ ret.err = ErrEmptyStore
    /\ Len(tokens) = 1
    /\ tokens[1].text = <<>>

\* C30: RandomTokenWithNode(tokenID) returns none (0) and no error exactly
\* when no stored node has tokenID in its first slot; else it returns the
\* id of a node whose first slot is tokenID, and each such node can be
\* returned.  A call whose statement the storage fails is set aside.
C30_RandomNode ==
    /\ \A tokenID \in TokenIds, scan \in RowPlans :
          Drawn(NodesWithToken0(nodes, tokenID),
                NodeMetBefore(nodes, scan)) = Headed(tokenID)
    /\ ret.op = "RandomNode" /\ ret.err # ErrStorage =>
         /\ ret.err = NoErr
         /\ ret.id = 0 <=> Headed(ret.arg) = {}
         /\ ret.id # 0 => ret.id \in Headed(ret.arg)

C30_Witness ==
    /\ ret.op = "RandomNode"
    /\ ret.err = NoErr
    /\ ret.id = 0
    /\ \E i \in 1..Len(nodes) : \E k \in 2..Len(nodes[i].toks) :
          nodes[i].toks[k] = ret.arg

(***************************************************************************)
(* Properties of Close and NewGraph.                                       *)
(***************************************************************************)
\* C27: after Close, every operation that goes to the storage fails with the
\* closed handle's error, the one its statement returns, and with no other
\* such as "no matching context found".  Calls refused for their arguments
\* before any statement (InvalidOrder, "context too short") are set aside.
C27_ClosedFails ==
    closed =>
        /\ ret.op # "Close" /\ ret.stmts > 0 => ret.err = ErrStorage
        /\ lookup # NoLookup /\ ~TooShort(lookup.ctx) =>
              lookup.err = ErrStorage

\* C28: a store is not opened by an opener that expects another order than
\* the one recorded in table info
C28_RejectsOtherOrder ==
    ret.op = "NewGraph" /\ ret.err = NoErr => ret.arg = info

(***************************************************************************)
(* Properties of GetWordTokens.                                            *)
(***************************************************************************)
\* characters of [A-Za-z0-9_] among those the texts of the model use
WordClass == {"a", "_"}

HasWordChar(text) == \E i \in 1..Len(text) : text[i] \in WordClass

Elems(s) == {s[i] : i \in 1..Len(s)}

\* C31: WordTokens returns exactly the given ids whose stored token is
\* flagged is_word, each once; the flag of every stored token says whether
\* its text has a character of [A-Za-z0-9_]; ids of other or of unknown
\* tokens are left out, and no id gives an empty result
C31_WordTokens ==
    /\ \A i \in 1..Len(tokens) : tokens[i].is_word <=> HasWordChar(tokens[i].text)
    /\ ret.op = "WordTokens" /\ ret.err = NoErr =>
         /\ Elems(ret.id) =
              {i \in Elems(ret.arg) :
                  i \in 1..Len(tokens) /\ HasWordChar(tokens[i].text)}
         /\ Cardinality(Elems(ret.id)) = Len(ret.id)
         /\ ret.arg = <<>> => ret.id = <<>>

C31_Witness ==
    /\ ret.op = "WordTokens"
    /\ ret.err = NoErr
    /\ ret.arg = <<2, 1>>
    /\ ret.id = <<2>>
    /\ Len(tokens) = 2
    /\ tokens[2].text = <<",", "_">>

(***************************************************************************)
(* Properties of the tokenizers.                                           *)
(***************************************************************************)
SplitBy(strategy) == api.op = "split" /\ api.strategy = strategy

\* the characters of a token sequence, in a row
RECURSIVE Flatten(_)
Flatten(toks) == IF toks = <<>> THEN <<>> ELSE Head(toks) \o Flatten(Tail(toks))

Punctuation == {",", ".", "!", "?", ";", ":"}

SpaceToken(tok) == tok = <<" ">>

PunctuationToken(tok) == Len(tok) = 1 /\ tok[1] \in Punctuation

\* a run of characters that are neither a space nor punctuation
RunToken(tok) ==
    /\ Len(tok) >= 1
    /\ \A i \in 1..Len(tok) : tok[i] # " " /\ tok[i] \notin Punctuation

\* C33: strategy A splits the text it has trimmed and collapsed into one
\* token per punctuation character, one per space and one per maximal run of
\* other characters; no longer token holds a space or punctuation, no two
\* space tokens are adjacent, and no space token comes first or last
C33_CobeTokens ==
    SplitBy("A") =>
        LET toks == api.tokens
        IN /\ Flatten(toks) = CobeNormalize(api.text)
           /\ \A k \in 1..Len(toks) :
                SpaceToken(toks[k]) \/ PunctuationToken(toks[k]) \/ RunToken(toks[k])
           /\ \A k \in 1..(Len(toks) - 1) :
                /\ ~(RunToken(toks[k]) /\ RunToken(toks[k + 1]))
                /\ ~(SpaceToken(toks[k]) /\ SpaceToken(toks[k + 1]))
           /\ toks # <<>> =>
                ~SpaceToken(toks[1]) /\ ~SpaceToken(toks[Len(toks)])

C33_Witness ==
    /\ SplitBy("A")
    /\ api.text = <<"a", ",", Tab, " ">>
    /\ api.tokens = <<<<"a">>, <<",">>>>

Alphanumeric == {"a", "1"}

WordToken(tok) == Len(tok) >= 1 /\ \A i \in 1..Len(tok) : tok[i] \in Alphanumeric

OtherToken(tok) ==
    /\ Len(tok) >= 1
    /\ \A i \in 1..Len(tok) : tok[i] \notin Alphanumeric /\ tok[i] # " "

\* C34: every token of strategy B is one space, or alphanumeric throughout,
\* or without an alphanumeric character and without a space; two adjacent
\* tokens are never both of the second or both of the third kind, after a
\* space as anywhere else
C34_MegaHALTokens ==
    SplitBy("B") =>
        LET toks == api.tokens
        IN /\ \A k \in 1..Len(toks) :
                SpaceToken(toks[k]) \/ WordToken(toks[k]) \/ OtherToken(toks[k])
           /\ \A k \in 1..(Len(toks) - 1) :
                /\ ~(WordToken(toks[k]) /\ WordToken(toks[k + 1]))
                /\ ~(OtherToken(toks[k]) /\ OtherToken(toks[k + 1]))

C34_Witness ==
    /\ SplitBy("B")
    /\ api.text = <<"a", " ", ",", "1">>
    /\ api.tokens = <<<<"a">>, <<" ">>, <<",">>, <<"1">>>>

\* white space: the characters strings.TrimSpace cuts
Whitespace == {" ", Tab, "\n", VT, "\f", "\r"}

\* the text without white space at its ends and with one space for each run
\* of white space
RECURSIVE Collapsed(_)
Collapsed(text) ==
    IF text = <<>> THEN text
    ELSE IF Head(text) \in Whitespace
    THEN LET rest == Collapsed(Tail(text))
         IN IF rest = <<>> \/ Head(rest) = " " THEN rest ELSE <<" ">> \o rest
    ELSE <<Head(text)>> \o Collapsed(Tail(text))

Trimmed(text) ==
    IF text # <<>> /\ Head(text) = " " THEN Tail(text) ELSE text

\* C35: the tokens of strategy B, in a row, are the text itself; those of
\* strategy A are the text trimmed and with one space for each run of white
\* space; so the empty text gives no token
C35_NoCharacterLost ==
    /\ SplitBy("B") => Flatten(api.tokens) = api.text
    /\ SplitBy("A") => Flatten(api.tokens) = Trimmed(Collapsed(api.text))

(***************************************************************************)
(* Properties of the sample of SearchRandomWalk.                           *)
(***************************************************************************)
\* the edges at the walk's node, in its direction, that lead to another node
Usable ==
    {id \in 1..Len(edges) :
        IF walk.dir
        THEN edges[id].prev = walk.cur /\ edges[id].next # walk.cur
        ELSE edges[id].next = walk.cur /\ edges[id].prev # walk.cur}

StoppedEarly ==
    /\ walk.pc = "returned"
    /\ walk.err = NoErr
    /\ Len(walk.path) < MaxLength
    /\ walk.cur # walk.endID

\* C36: with edges unique per triple, a walk that returns before 15 steps
\* and not at its end node is at a node without an edge to another node in
\* the walk's direction: a sample of 5 edges never consists of self-loops
\* while such an edge exists
C36_StopsAtDeadEnd == StoppedEarly => Usable = {}

C36_Witness ==
    /\ StoppedEarly
    /\ walk.start = 1
    /\ walk.dir
    /\ Cardinality({id \in 1..Len(edges) : edges[id].prev = 1}) > SampleLimit
    /\ Len(walk.path) >= 3

(***************************************************************************)
(* Properties of the Neovim plugin.                                        *)
(***************************************************************************)
\* no timer runs and no timer callback waits: nothing more will invoke the
\* debounced function
Settled ==
    /\ \A id \in 1..Len(editor.timers) : editor.timers[id] # "armed"
    /\ \A k \in 1..Len(editor.queue) : editor.queue[k].kind # "timer"

\* C37: the last call of the debounced function, which no call follows, is
\* invoked once its delay has elapsed and its callback has run, also when the
\* call came between the firing of the timer before it and that timer's
\* callback
C37_LastCallInvoked ==
    Settled /\ editor.timers # <<>> =>
        \E k \in 1..Len(editor.invoked) : editor.invoked[k] = Len(editor.timers)

\* C38: the calls of the engine are start, stop, start, ..., one for each
\* change of enabled; enabled implies initialized
C38_StartStopAlternate ==
    /\ \A k \in 1..Len(plugin.engine) :
          plugin.engine[k] = IF k % 2 = 1 THEN "start" ELSE "stop"
    /\ plugin.enabled <=> Len(plugin.engine) % 2 = 1
    /\ plugin.enabled => plugin.initialized
    /\ editor.autocmds <=> plugin.enabled

C38_Witness ==
    /\ plugin.last = "enable"
    /\ plugin.fresh
    /\ plugin.initialized
    /\ plugin.enabled
    /\ plugin.engine = <<"start">>

\* C39: while the engine is stopped no suggestion is stored and no extmark
\* is set
C39_NothingShownWhenStopped ==
    ~plugin.enabled => editor.suggestion = 0 /\ editor.extmark = 0

====
